---- MODULE Spec2Model ----
(***************************************************************************)
(* Model of the INSPIRE multi-record editor                                *)
(* (inspirehep/modules/multieditor/actions.py, tasks.py).                  *)
(*                                                                         *)
(* A record is a JSON tree.  Python strings are sequences of characters,   *)
(* so that substring and regular-expression search are computed.  Python   *)
(* objects that the engine can share between places (the `value` of an     *)
(* action) live in a store and are referred to by Ref nodes; every other   *)
(* node is held inline.  A Python exception is an outcome with err # "".   *)
(* The module is Python 2: filter() on a list returns a list.              *)
(***************************************************************************)
EXTENDS Integers, Sequences, FiniteSets, TLC

VARIABLES
    pc,          \* position of the driver that calls the engine
    store,       \* shared Python objects: the value of each action
    records,     \* the records handed to the engine, a sequence of JSON trees
    before,      \* the records as they were handed over (content, for comparison)
    schema,      \* the schema document
    user_actions,\* the rule description received from the user
    class_actions,\* the Action objects, each with its changed flag
    built,       \* outcome of get_actions: "none", "list", "None" or an exception
    out,         \* value returned by the function called last
    err,         \* exception that ended the call, "" when it returned
    errors,      \* process_records: the records whose commit raised, in order
    session      \* process_records: the records that record.commit() stored

vars == <<pc, store, records, before, schema, user_actions, class_actions,
          built, out, err, errors, session>>

-----------------------------------------------------------------------------
(* JSON values *)

Str(s)  == [t |-> "s", k |-> "str", v |-> s]
Bool(b) == [t |-> "s", k |-> "bool", v |-> IF b THEN <<"1">> ELSE <<"0">>]
Num(d)  == [t |-> "s", k |-> "num", v |-> d]
None    == [t |-> "s", k |-> "none", v |-> <<>>]
Obj(m)  == [t |-> "o", m |-> m]
Arr(e)  == [t |-> "a", e |-> e]
Ref(i)  == [t |-> "r", i |-> i]

EmptyMap == [x \in {} |-> None]
EmptyObj == Obj(EmptyMap)
EmptyArr == Arr(<<>>)
EmptyStr == Str(<<>>)

\* A one-key dict and the union of two dicts (dict.update: d2 wins).
One(key, node) == [x \in {key} |-> node]
Merge(m1, m2) ==
    [x \in (DOMAIN m1) \cup (DOMAIN m2) |-> IF x \in DOMAIN m2 THEN m2[x] ELSE m1[x]]
Without(m, key) == [x \in (DOMAIN m) \ {key} |-> m[x]]

\* The object a slot refers to: a Ref is followed into the store.
Val(st, n) == IF n.t = "r" THEN st[n.i] ELSE n

\* The content of a tree with every reference expanded.
RECURSIVE Deref(_, _)
Deref(st, n) ==
    CASE n.t = "r" -> Deref(st, st[n.i])
      [] n.t = "o" -> Obj([x \in DOMAIN n.m |-> Deref(st, n.m[x])])
      [] n.t = "a" -> Arr([j \in 1..Len(n.e) |-> Deref(st, n.e[j])])
      [] OTHER     -> n

\* Python's == on JSON values: structural, with True == 1 and False == 0.
RECURSIVE Norm(_)
Norm(n) ==
    CASE n.t = "o" -> Obj([x \in DOMAIN n.m |-> Norm(n.m[x])])
      [] n.t = "a" -> Arr([j \in 1..Len(n.e) |-> Norm(n.e[j])])
      [] n.t = "s" /\ n.k = "bool" -> Num(n.v)
      [] OTHER     -> n
PyEq(st, x, y) == Norm(Deref(st, x)) = Norm(Deref(st, y))

\* Python's truth value of an object (the argument is not a Ref).
Truthy(n) ==
    CASE n.t = "o" -> DOMAIN n.m # {}
      [] n.t = "a" -> n.e # <<>>
      [] n.k = "str" -> n.v # <<>>
      [] n.k = "bool" -> n.v = <<"1">>
      [] n.k = "num" -> n.v # <<"0">>
      [] OTHER -> FALSE

IsDict(n) == n.t = "o"
IsList(n) == n.t = "a"
IsStr(n)  == n.t = "s" /\ n.k = "str"

\* dict.get(key): the object under key, None when the key is absent.
DictGet(st, record, key) ==
    IF key \in DOMAIN record.m THEN Val(st, record.m[key]) ELSE None

-----------------------------------------------------------------------------
(* Outcomes *)

Ret(x)   == [val |-> x, err |-> ""]
Raise(e) == [val |-> FALSE, err |-> e]

\* A local variable of the code: x is computed once and F names it.
With(x, F(_)) == F(x)

-----------------------------------------------------------------------------
(* Python's string tests *)

Alnum ==
    {"a","b","c","d","e","f","g","h","i","j","k","l","m","n","o","p","q","r",
     "s","t","u","v","w","x","y","z","A","B","C","D","E","F","G","H","I","J",
     "K","L","M","N","O","P","Q","R","S","T","U","V","W","X","Y","Z",
     "0","1","2","3","4","5","6","7","8","9"}

\* s in h, both strings.
IsSubstring(s, h) ==
    \E i \in 0..(Len(h) - Len(s)) : SubSeq(h, i + 1, i + Len(s)) = s

\* re.escape: a backslash before every character that is not alphanumeric.
RECURSIVE re_escape(_)
re_escape(s) ==
    IF s = <<>> THEN <<>>
    ELSE (IF Head(s) \in Alnum THEN <<Head(s)>> ELSE <<"\\", Head(s)>>)
         \o re_escape(Tail(s))

\* The pattern as the regex engine reads it: a backslash makes the next
\* character literal, a bare dot matches any character.
RECURSIVE re_atoms(_)
re_atoms(p) ==
    IF p = <<>> THEN <<>>
    ELSE IF Head(p) = "\\" /\ Len(p) > 1
         THEN <<[any |-> FALSE, c |-> p[2]]>> \o re_atoms(Tail(Tail(p)))
         ELSE <<[any |-> Head(p) = ".", c |-> Head(p)]>> \o re_atoms(Tail(p))

\* re.match in the place of re.search: the pattern matches at the start of h.
re_match_str(p, h) ==
    LET atoms == re_atoms(p) IN
    /\ Len(atoms) <= Len(h)
    /\ \A j \in 1..Len(atoms) : atoms[j].any \/ atoms[j].c = h[j]

\* re.search(pattern, h) on strings: some position of h where the pattern matches.
re_search_str(p, h) ==
    LET atoms == re_atoms(p) IN
    \E i \in 0..(Len(h) - Len(atoms)) :
        \A j \in 1..Len(atoms) : atoms[j].any \/ atoms[j].c = h[i + j]

\* re.search(re.escape(value_to_check), x): TypeError unless both are strings.
re_search(st, value_to_check, x) ==
    IF ~IsStr(value_to_check) \/ ~IsStr(x) THEN Raise("TypeError")
    ELSE Ret(re_search_str(re_escape(value_to_check.v), x.v))

\* value_to_check in x.  A string needs a string on the left; a list is searched
\* with ==; a dict is searched among its keys and needs a hashable operand;
\* no other object is iterable.
py_in(st, value_to_check, x) ==
    CASE IsStr(x) ->
            IF IsStr(value_to_check)
            THEN Ret(IsSubstring(value_to_check.v, x.v))
            ELSE Raise("TypeError")
      [] IsList(x) -> Ret(\E j \in 1..Len(x.e) : PyEq(st, x.e[j], value_to_check))
      [] IsDict(x) ->
            IF value_to_check.t = "s"
            THEN Ret(IsStr(value_to_check) /\ value_to_check.v \in DOMAIN x.m)
            ELSE Raise("TypeError")
      [] OTHER -> Raise("TypeError")

\* x in [{}, '', []]
IsEmptySentinel(st, x) ==
    \/ PyEq(st, x, EmptyObj)
    \/ PyEq(st, x, EmptyStr)
    \/ PyEq(st, x, EmptyArr)

-----------------------------------------------------------------------------
(* check_value *)

\* The three-way test of check_value on one object x (lines 216-223, 230-237):
\* the first branch whose match type is the condition's decides.
check_leaf(st, match_type, value_to_check, x) ==
    IF match_type = "equal" /\ PyEq(st, x, value_to_check) THEN Ret(TRUE)
    ELSE IF match_type = "contains" THEN py_in(st, value_to_check, x)
    ELSE IF match_type = "regex" THEN re_search(st, value_to_check, x)
    ELSE Ret(FALSE)

\* keys[position]: position counts from 0 as in the code.
KeyAt(keys, position) == keys[position + 1]

RECURSIVE check_value(_, _, _, _, _, _)
RECURSIVE check_value_list(_, _, _, _, _, _, _)

\* The loop of check_value over the elements of a list, from element j on.
check_value_list(st, e, j, match_type, keys, value_to_check, position) ==
    IF j > Len(e) THEN Ret(FALSE)
    ELSE With(IF position + 1 = Len(keys)
              THEN check_leaf(st, match_type, value_to_check, Val(st, e[j]))
              ELSE check_value(st, Val(st, e[j]), match_type, keys,
                               value_to_check, position + 1),
              LAMBDA r :
                IF r.err # "" \/ r.val THEN r
                ELSE check_value_list(st, e, j + 1, match_type, keys,
                                      value_to_check, position))

check_value(st, record, match_type, keys, value_to_check, position) ==
    LET key == KeyAt(keys, position) IN
    IF ~IsDict(record) THEN Raise("AttributeError")
    ELSE IF ~Truthy(DictGet(st, record, key)) THEN Ret(match_type = "missing")
    ELSE With(DictGet(st, record, key), LAMBDA temp_record :
         IF IsList(temp_record)
         THEN check_value_list(st, temp_record.e, 1, match_type, keys,
                               value_to_check, position)
         ELSE IF position + 1 = Len(keys)
         THEN check_leaf(st, match_type, value_to_check, temp_record)
         ELSE check_value(st, temp_record, match_type, keys,
                          value_to_check, position + 1))

-----------------------------------------------------------------------------
(* Schema documents *)

SObj(props) == [type |-> "object", properties |-> props]
SArr(items) == [type |-> "array", items |-> items]
SStr        == [type |-> "string"]
SEmpty      == [type |-> ""]      \* the empty dict {} that the unit tests pass

\* schema[...][key] as progress_keys reads it (lines 41-46).  The path keys of
\* the model are never JSON-schema keywords.
schema_step(schema_, key) ==
    IF schema_.type = "" THEN Ret(SEmpty)
    ELSE IF schema_.type = "object"
    THEN IF key \in DOMAIN schema_.properties
         THEN Ret(schema_.properties[key]) ELSE Raise("KeyError")
    ELSE IF schema_.type = "array"
    THEN IF schema_.items.type = "object" /\ key \in DOMAIN schema_.items.properties
         THEN Ret(schema_.items.properties[key]) ELSE Raise("KeyError")
    ELSE Ret(SEmpty)

-----------------------------------------------------------------------------
(* Action.progress_keys *)

\* The test of lines 49-52 without its first alternative: only a condition on
\* the action's own path is evaluated.
condition_triggered_same_path_only(self, condition, position) ==
    /\ position < Len(condition.keys)
    /\ KeyAt(self.keys, position) = KeyAt(condition.keys, position)
    /\ position = Len(condition.keys) - 1

\* An Action object: [kind, keys, value, match_type, value_to_check, conditions];
\* a condition: [keys, value, match_type].
\* The test of lines 49-52 that decides whether a condition is evaluated here.
condition_triggered(self, condition, position) ==
    LET key == KeyAt(self.keys, position)
        ckeys == condition.keys
    IN  /\ position < Len(ckeys)
        /\ \/ /\ key # KeyAt(ckeys, position)
              /\ \/ position = 0
                 \/ KeyAt(self.keys, position - 1) = KeyAt(ckeys, position - 1)
           \/ /\ key = KeyAt(ckeys, position)
              /\ position = Len(ckeys) - 1

\* The loop over self.conditions, from condition c on.
RECURSIVE progress_conditions(_, _, _, _, _, _, _)
progress_conditions(self, st, record, position, checked, condition_failed, c) ==
    IF c > Len(self.conditions)
    THEN [checked |-> checked, condition_failed |-> condition_failed, err |-> ""]
    ELSE LET condition == self.conditions[c] IN
         IF condition_triggered(self, condition, position)
         THEN With(check_value(st, record, condition.match_type, condition.keys,
                               condition.value, position),
                   LAMBDA r :
                     IF r.err # ""
                     THEN [checked |-> checked, condition_failed |-> condition_failed,
                           err |-> r.err]
                     ELSE progress_conditions(self, st, record, position, checked + 1,
                                              condition_failed \/ ~r.val, c + 1))
         ELSE progress_conditions(self, st, record, position, checked,
                                  condition_failed, c + 1)

\* progress_keys that forgets line 58: a false condition does not fail.
progress_keys_never_failing(self, st, record, schema_, position, checked) ==
    LET key == KeyAt(self.keys, position)
        ns == schema_step(schema_, key)
    IN With(progress_conditions(self, st, record, position, checked, FALSE, 1),
            LAMBDA pr :
              [new_schema |-> ns.val, checked |-> pr.checked, key |-> key,
               condition_failed |-> FALSE,
               err |-> IF ns.err # "" THEN ns.err ELSE pr.err])

progress_keys(self, st, record, schema_, position, checked) ==
    LET key == KeyAt(self.keys, position)
        ns == schema_step(schema_, key)
    IN IF ns.err # ""
       THEN [new_schema |-> SEmpty, checked |-> checked, key |-> key,
             condition_failed |-> FALSE, err |-> ns.err]
       ELSE With(progress_conditions(self, st, record, position, checked, FALSE, 1),
                 LAMBDA pr :
                   [new_schema |-> ns.val, checked |-> pr.checked, key |-> key,
                    condition_failed |-> pr.condition_failed, err |-> pr.err])

-----------------------------------------------------------------------------
(* create_schema_record *)

\* new_schema of create_schema_record is by turns a schema node and the
\* properties dict of one: [props |-> TRUE, p |-> dict] or [props |-> FALSE, n |-> node].
\* Looking a path key up in a node raises KeyError.
AsProps(p) == [props |-> TRUE, p |-> p]
AsNode(n)  == [props |-> FALSE, n |-> n]

\* temp_record[key] = node, where temp_record is the object reached from
\* record by the steps of cursor: AtKey(k) for [k], First for element [0].
AtKey(k) == [first |-> FALSE, k |-> k]
First    == [first |-> TRUE, k |-> <<>>]
RECURSIVE SetAt(_, _, _, _)
SetAt(record, cursor, key, node) ==
    IF cursor = <<>> THEN Obj(Merge(record.m, One(key, node)))
    ELSE IF Head(cursor).first
    THEN Arr(<<SetAt(record.e[1], Tail(cursor), key, node)>>)
    ELSE Obj(Merge(record.m,
             One(Head(cursor).k,
                 SetAt(record.m[Head(cursor).k], Tail(cursor), key, node))))

\* The loop of lines 187-202 from path element j on, then line 203.
RECURSIVE create_loop(_, _, _, _, _, _)
create_loop(record, cursor, new_schema, path, value, j) ==
    IF j > Len(path) THEN Ret(SetAt(record, cursor, path[Len(path)], value))
    ELSE LET key == path[j] IN
         IF ~(new_schema.props /\ key \in DOMAIN new_schema.p) THEN Raise("KeyError")
         ELSE LET node == new_schema.p[key] IN
              IF node.type = "object"
              THEN create_loop(SetAt(record, cursor, key, EmptyObj),
                               cursor \o <<AtKey(key)>>, AsProps(node.properties),
                               path, value, j + 1)
              ELSE IF node.type = "array"
              THEN LET ns == IF node.items.type = "object"
                             THEN AsProps(node.items.properties) ELSE AsNode(node)
                   IN IF Len(path) = 1
                      THEN Ret(SetAt(record, cursor, key, Arr(<<value>>)))
                      ELSE create_loop(SetAt(record, cursor, key, Arr(<<EmptyObj>>)),
                                       cursor \o <<AtKey(key), First>>, ns, path, value, j + 1)
              ELSE create_loop(record, cursor, AsNode(node), path, value, j + 1)

create_schema_record(schema_, path, value) ==
    IF schema_.type = "" THEN Raise("KeyError")
    ELSE IF schema_.type = "array" /\ schema_.items.type # "object"
    THEN Raise("KeyError")
    ELSE create_loop(EmptyObj, <<>>,
                     IF schema_.type = "array"
                     THEN AsProps(schema_.items.properties)
                     ELSE IF schema_.type = "object"
                     THEN AsProps(schema_.properties)
                     ELSE AsNode(schema_),
                     path, value, 1)

-----------------------------------------------------------------------------
(* The three actions *)

Res(rec, st, changed, e) == [rec |-> rec, st |-> st, changed |-> changed, err |-> e]

\* An assignment that leaves the object with the assigned key alone.
SetSlot_alone(record, key, node) == Obj(One(key, node))

\* record[key] = node
SetSlot(record, key, node) == Obj(Merge(record.m, One(key, node)))

\* The object under record[key] was mutated in place and now holds content:
\* a shared object changes in the store, an unshared one where it is held.
PutContent(st, record, key, content) ==
    IF record.m[key].t = "r"
    THEN [rec |-> record, st |-> [st EXCEPT ![record.m[key].i] = content]]
    ELSE [rec |-> SetSlot(record, key, content), st |-> st]

RECURSIVE apply_action(_, _, _, _, _, _, _)

\* for array_record in record[key]: self.apply_action(array_record, ...),
\* from element j on; e holds the slots of the list.
RECURSIVE descend_list(_, _, _, _, _, _, _, _)
descend_list(self, st, e, j, new_schema, position, checked, changed) ==
    IF j > Len(e) THEN [e |-> e, st |-> st, changed |-> changed, err |-> ""]
    ELSE With(apply_action(self, st, Val(st, e[j]), new_schema,
                           position + 1, checked, changed),
              LAMBDA r :
                LET e2 == IF e[j].t = "r" THEN e ELSE [e EXCEPT ![j] = r.rec]
                    st2 == IF e[j].t = "r" THEN [r.st EXCEPT ![e[j].i] = r.rec]
                           ELSE r.st
                IN IF r.err # ""
                   THEN [e |-> e2, st |-> st2, changed |-> r.changed, err |-> r.err]
                   ELSE descend_list(self, st2, e2, j + 1, new_schema, position,
                                     checked, r.changed))

\* The non-leaf step that the three classes share (lines 83-87, 126-130, 171-175).
descend(self, st, record, key, new_schema, position, checked, changed) ==
    LET child == Val(st, record.m[key]) IN
    IF IsList(child)
    THEN With(descend_list(self, st, child.e, 1, new_schema, position,
                           checked, changed),
              LAMBDA r :
                LET p == PutContent(r.st, record, key, Arr(r.e))
                IN Res(p.rec, p.st, r.changed, r.err))
    ELSE With(apply_action(self, st, child, new_schema, position + 1,
                           checked, changed),
              LAMBDA r :
                LET p == PutContent(r.st, record, key, r.rec)
                IN Res(p.rec, p.st, r.changed, r.err))

\* Addition.apply_action that appends only a value the list does not hold yet.
Addition_apply_action_dedup(self, st, record, schema_, position, checked, changed) ==
    With(progress_keys(self, st, record, schema_, position, checked), LAMBDA pk :
    LET key == pk.key IN
    IF pk.err # "" THEN Res(record, st, changed, pk.err)
    ELSE IF pk.condition_failed THEN Res(record, st, changed, "")
    ELSE IF ~IsDict(record) THEN Res(record, st, changed, "AttributeError")
    ELSE IF ~Truthy(DictGet(st, record, key))
    THEN IF self.conditions # <<>> /\ pk.checked < Len(self.conditions)
         THEN Res(record, st, changed, "")
         ELSE LET creation_keys == SubSeq(self.keys, position + 1, Len(self.keys))
              IN With(create_schema_record(schema_, creation_keys, self.value),
                      LAMBDA c :
                        IF c.err # "" THEN Res(record, st, changed, c.err)
                        ELSE Res(Obj(Merge(record.m, c.val.m)), st, TRUE, ""))
    ELSE IF position = Len(self.keys) - 1
    THEN IF IsList(DictGet(st, record, key))
              /\ \A j \in 1..Len(DictGet(st, record, key).e) :
                    ~PyEq(st, DictGet(st, record, key).e[j], self.value)
         THEN LET p == PutContent(st, record, key,
                           Arr(Append(DictGet(st, record, key).e, self.value)))
              IN Res(p.rec, p.st, TRUE, "")
         ELSE Res(record, st, changed, "")
    ELSE descend(self, st, record, key, pk.new_schema, position, pk.checked, changed))

Addition_apply_action(self, st, record, schema_, position, checked, changed) ==
    With(progress_keys(self, st, record, schema_, position, checked), LAMBDA pk :
    LET key == pk.key IN
    IF pk.err # "" THEN Res(record, st, changed, pk.err)
    ELSE IF pk.condition_failed THEN Res(record, st, changed, "")
    ELSE IF ~IsDict(record) THEN Res(record, st, changed, "AttributeError")
    ELSE IF ~Truthy(DictGet(st, record, key))
    THEN IF self.conditions # <<>> /\ pk.checked < Len(self.conditions)
         THEN Res(record, st, changed, "")
         ELSE LET creation_keys == SubSeq(self.keys, position + 1, Len(self.keys))
              IN With(create_schema_record(schema_, creation_keys, self.value),
                      LAMBDA c :
                        IF c.err # "" THEN Res(record, st, changed, c.err)
                        ELSE Res(Obj(Merge(record.m, c.val.m)), st, TRUE, ""))
    ELSE IF position = Len(self.keys) - 1
    THEN IF IsList(DictGet(st, record, key))
         THEN LET p == PutContent(st, record, key,
                           Arr(Append(DictGet(st, record, key).e, self.value)))
              IN Res(p.rec, p.st, TRUE, "")
         ELSE Res(record, st, changed, "")
    ELSE descend(self, st, record, key, pk.new_schema, position, pk.checked, changed))

\* The test of the list branches (lines 101-110, 148-157) on the element x:
\* when the match type is not 'regex' or 'equal' the third lambda is used.
list_matches(self, st, x) ==
    IF self.match_type = "regex" THEN re_search(st, self.value_to_check, x)
    ELSE IF self.match_type = "equal" THEN Ret(PyEq(st, x, self.value_to_check))
    ELSE py_in(st, self.value_to_check, x)

\* filter(lambda x: ..., record[key]) of Deletion (lines 101-110), from
\* element j on: the elements that do not match, in their order.
RECURSIVE deletion_filter(_, _, _, _, _)
deletion_filter(self, st, e, j, kept) ==
    IF j > Len(e) THEN Ret(kept)
    ELSE With(list_matches(self, st, Val(st, e[j])), LAMBDA hit :
           IF hit.err # "" THEN Raise(hit.err)
           ELSE deletion_filter(self, st, e, j + 1,
                                IF hit.val THEN kept ELSE Append(kept, e[j])))

\* The three-way test of the scalar branches (lines 113-121, 160-167) on the
\* object x held under the key.
scalar_matches(self, st, x) ==
    IF self.match_type = "equal" THEN Ret(PyEq(st, x, self.value_to_check))
    ELSE IF self.match_type = "regex" THEN re_search(st, self.value_to_check, x)
    ELSE IF self.match_type = "contains" THEN py_in(st, self.value_to_check, x)
    ELSE Ret(FALSE)

\* Lines 131-134: empty elements leave a list, an empty value leaves its key.
RECURSIVE drop_empty(_, _)
drop_empty(st, e) ==
    IF e = <<>> THEN <<>>
    ELSE (IF IsEmptySentinel(st, Head(e)) THEN <<>> ELSE <<Head(e)>>)
         \o drop_empty(st, Tail(e))

\* deletion_prune without lines 133-134: a key left with an empty value stays.
deletion_prune_lists_only(st, record, key) ==
    IF IsList(Val(st, record.m[key]))
    THEN SetSlot(record, key, Arr(drop_empty(st, Val(st, record.m[key]).e)))
    ELSE record

\* deletion_prune without lines 131-132: the list under the key is not cleaned.
deletion_prune_key_only(st, record, key) ==
    IF IsEmptySentinel(st, record.m[key]) THEN Obj(Without(record.m, key)) ELSE record

deletion_prune(st, record, key) ==
    With(IF IsList(Val(st, record.m[key]))
         THEN SetSlot(record, key, Arr(drop_empty(st, Val(st, record.m[key]).e)))
         ELSE record,
         LAMBDA r1 :
           IF IsEmptySentinel(st, r1.m[key]) THEN Obj(Without(r1.m, key)) ELSE r1)

Deletion_apply_action(self, st, record, schema_, position, checked, changed) ==
    With(progress_keys(self, st, record, schema_, position, checked), LAMBDA pk :
    LET key == pk.key IN
    IF pk.err # "" THEN Res(record, st, changed, pk.err)
    ELSE IF pk.condition_failed THEN Res(record, st, changed, "")
    ELSE IF ~IsDict(record) THEN Res(record, st, changed, "AttributeError")
    ELSE IF ~Truthy(DictGet(st, record, key)) THEN Res(record, st, changed, "")
    ELSE IF position = Len(self.keys) - 1
    THEN IF IsList(DictGet(st, record, key))
         THEN IF self.match_type \in {"regex", "equal", "contains"}
              THEN With(deletion_filter(self, st, DictGet(st, record, key).e, 1, <<>>),
                        LAMBDA f :
                          IF f.err # "" THEN Res(record, st, changed, f.err)
                          ELSE Res(deletion_prune(st, SetSlot(record, key, Arr(f.val)),
                                                  key),
                                   st, changed, ""))
              ELSE Res(deletion_prune(st, record, key), st, changed, "")
         ELSE With(scalar_matches(self, st, DictGet(st, record, key)), LAMBDA hit :
                IF hit.err # "" THEN Res(record, st, changed, hit.err)
                ELSE Res(IF hit.val THEN Obj(Without(record.m, key)) ELSE record,
                         st, TRUE, ""))
    ELSE With(descend(self, st, record, key, pk.new_schema, position,
                      pk.checked, changed),
              LAMBDA d :
                IF d.err # "" THEN d
                ELSE Res(deletion_prune(d.st, d.rec, key), d.st, d.changed, "")))

\* The comprehension of lines 148-157 stopping at the first element that
\* matches: the elements after it are kept as they are.
RECURSIVE update_map_first_only(_, _, _, _, _)
update_map_first_only(self, st, e, j, done) ==
    IF j > Len(e) THEN Ret(done)
    ELSE With(list_matches(self, st, Val(st, e[j])), LAMBDA hit :
           IF hit.err # "" THEN Raise(hit.err)
           ELSE IF hit.val
           THEN Ret(Append(done, self.value) \o SubSeq(e, j + 1, Len(e)))
           ELSE update_map_first_only(self, st, e, j + 1, Append(done, e[j])))

\* [self.value if ... else x for x in record[key]] of Update (lines 148-157),
\* from element j on.
RECURSIVE update_map(_, _, _, _, _)
update_map(self, st, e, j, done) ==
    IF j > Len(e) THEN Ret(done)
    ELSE With(list_matches(self, st, Val(st, e[j])), LAMBDA hit :
           IF hit.err # "" THEN Raise(hit.err)
           ELSE update_map(self, st, e, j + 1,
                           Append(done, IF hit.val THEN self.value ELSE e[j])))

Update_apply_action(self, st, record, schema_, position, checked, changed) ==
    With(progress_keys(self, st, record, schema_, position, checked), LAMBDA pk :
    LET key == pk.key IN
    IF pk.err # "" THEN Res(record, st, changed, pk.err)
    ELSE IF pk.condition_failed THEN Res(record, st, changed, "")
    ELSE IF ~IsDict(record) THEN Res(record, st, changed, "AttributeError")
    ELSE IF ~Truthy(DictGet(st, record, key)) THEN Res(record, st, changed, "")
    ELSE IF position = Len(self.keys) - 1
    THEN IF IsList(DictGet(st, record, key))
         THEN IF self.match_type \in {"regex", "equal", "contains"}
              THEN With(update_map(self, st, DictGet(st, record, key).e, 1, <<>>),
                        LAMBDA f :
                          IF f.err # "" THEN Res(record, st, changed, f.err)
                          ELSE Res(SetSlot(record, key, Arr(f.val)), st, TRUE, ""))
              ELSE Res(record, st, TRUE, "")
         ELSE With(scalar_matches(self, st, DictGet(st, record, key)), LAMBDA hit :
                IF hit.err # "" THEN Res(record, st, changed, hit.err)
                ELSE Res(IF hit.val THEN SetSlot(record, key, self.value) ELSE record,
                         st, TRUE, ""))
    ELSE descend(self, st, record, key, pk.new_schema, position, pk.checked, changed))

\* class_action.apply_action(record, schema): the method of the object's class.
apply_action(self, st, record, schema_, position, checked, changed) ==
    IF self.kind = "Addition"
    THEN Addition_apply_action(self, st, record, schema_, position, checked, changed)
    ELSE IF self.kind = "Deletion"
    THEN Deletion_apply_action(self, st, record, schema_, position, checked, changed)
    ELSE Update_apply_action(self, st, record, schema_, position, checked, changed)

-----------------------------------------------------------------------------
(* Drivers *)

\* An Action object as Action.__init__ leaves it (lines 29-36).
Action(kind, keys, value, match_type, value_to_check, conditions) ==
    [kind |-> kind, keys |-> keys, value |-> value, match_type |-> match_type,
     value_to_check |-> value_to_check, conditions |-> conditions,
     changed |-> FALSE]

Condition(keys, value, match_type) ==
    [keys |-> keys, value |-> value, match_type |-> match_type]

\* The rule description the user sends: {} is [empty |-> TRUE]; otherwise the
\* lists under 'conditions' and 'actions'.  A condition description is
\* [key, value, matchType]; an action description is
\* [actionName, mainKey, value, matchType, updateValue], mainKey being None
\* when the description has none.
NoUserActions == [empty |-> TRUE, conditions |-> <<>>, actions |-> <<>>]
UserActions(conditions, actions) ==
    [empty |-> FALSE, conditions |-> conditions, actions |-> actions]
UserCondition(key, value, matchType) ==
    [key |-> key, value |-> value, matchType |-> matchType]
UserAction(actionName, mainKey, value, matchType, updateValue) ==
    [actionName |-> actionName, mainKey |-> mainKey, value |-> value,
     matchType |-> matchType, updateValue |-> updateValue]

\* s.split('/'): the pieces between the slashes, piece being the one that is
\* read now; ''.split('/') is [''].
RECURSIVE split_from(_, _)
split_from(s, piece) ==
    IF s = <<>> THEN <<piece>>
    ELSE IF Head(s) = "/" THEN <<piece>> \o split_from(Tail(s), <<>>)
    ELSE split_from(Tail(s), Append(piece, Head(s)))
split(s) == split_from(s, <<>>)

\* The first loop of get_actions (lines 250-257), from description j on.
RECURSIVE get_conditions(_, _, _)
get_conditions(descs, j, conditions) ==
    IF j > Len(descs) THEN conditions
    ELSE IF descs[j].key = <<>> THEN get_conditions(descs, j + 1, conditions)
    ELSE get_conditions(descs, j + 1,
            Append(conditions, Condition(split(descs[j].key), descs[j].value,
                                         descs[j].matchType)))

\* The second loop of get_actions (lines 259-276), from description j on.
\* The result is [none, actions, err]: none when the function returned None.
RECURSIVE get_class_actions(_, _, _, _)
get_class_actions(descs, j, conditions, acts) ==
    IF j > Len(descs) THEN [none |-> FALSE, actions |-> acts, err |-> ""]
    ELSE IF ~IsStr(descs[j].mainKey)
    THEN [none |-> FALSE, actions |-> acts, err |-> "AttributeError"]
    ELSE LET keys == split(descs[j].mainKey.v)
             user_action == descs[j]
         IN IF keys = <<>> THEN [none |-> TRUE, actions |-> <<>>, err |-> ""]
            ELSE get_class_actions(descs, j + 1, conditions,
                    IF user_action.actionName = "Addition"
                    THEN Append(acts, Action("Addition", keys, user_action.value,
                                             user_action.matchType, None, conditions))
                    ELSE IF user_action.actionName \in {"Deletion", "Update"}
                    THEN Append(acts, Action(user_action.actionName, keys,
                                             user_action.value, user_action.matchType,
                                             user_action.updateValue, conditions))
                    ELSE acts)

get_actions(user_actions_) ==
    IF user_actions_.empty THEN [none |-> TRUE, actions |-> <<>>, err |-> ""]
    ELSE get_class_actions(user_actions_.actions, 1,
                           get_conditions(user_actions_.conditions, 1, <<>>), <<>>)

\* The loops of process_records_no_db with the actions taken from the last to
\* the first.
RECURSIVE process_loop_backwards(_, _, _, _, _, _)
process_loop_backwards(acts, st, recs, schema_, i, a) ==
    IF i > Len(recs)
    THEN [records |-> recs, st |-> st, class_actions |-> acts, err |-> ""]
    ELSE IF a > Len(acts) THEN process_loop_backwards(acts, st, recs, schema_, i + 1, 1)
    ELSE With(apply_action(acts[Len(acts) + 1 - a], st, recs[i], schema_, 0, 0, FALSE),
              LAMBDA r :
                IF r.err # ""
                THEN [records |-> [recs EXCEPT ![i] = r.rec], st |-> r.st,
                      class_actions |-> acts, err |-> r.err]
                ELSE process_loop_backwards(acts, r.st, [recs EXCEPT ![i] = r.rec],
                                            schema_, i, a + 1))

\* The loops of process_records_no_db (lines 282-284) from record i and
\* action a on.  The result is [records, st, class_actions, err].
RECURSIVE process_loop(_, _, _, _, _, _)
process_loop(acts, st, recs, schema_, i, a) ==
    IF i > Len(recs)
    THEN [records |-> recs, st |-> st, class_actions |-> acts, err |-> ""]
    ELSE IF a > Len(acts) THEN process_loop(acts, st, recs, schema_, i + 1, 1)
    ELSE With(apply_action(acts[a], st, recs[i], schema_, 0, 0, acts[a].changed),
              LAMBDA r :
                LET recs2 == [recs EXCEPT ![i] = r.rec]
                    acts2 == [acts EXCEPT ![a].changed = r.changed]
                IN IF r.err # ""
                   THEN [records |-> recs2, st |-> r.st, class_actions |-> acts2,
                         err |-> r.err]
                   ELSE process_loop(acts2, r.st, recs2, schema_, i, a + 1))

\* Iterating over None (line 283) is a TypeError, met when there is a record.
process_records_no_db(user_actions_, st, recs, schema_) ==
    With(get_actions(user_actions_), LAMBDA g :
      IF g.err # ""
      THEN [records |-> recs, st |-> st, class_actions |-> <<>>, err |-> g.err]
      ELSE IF g.none
      THEN [records |-> recs, st |-> st, class_actions |-> <<>>,
            err |-> IF recs = <<>> THEN "" ELSE "TypeError"]
      ELSE process_loop(g.actions, st, recs, schema_, 1, 1))

\* The loops of lines 41-52 without line 46: the flag of an action that
\* changed a record is still set when the next record is processed.
RECURSIVE process_records_loop_no_reset(_, _, _, _, _, _, _, _, _, _)
process_records_loop_no_reset(acts, st, recs, schema_, i, a, commit_record, errors_, session_, fails) ==
    IF i > Len(recs)
    THEN [records |-> recs, st |-> st, class_actions |-> acts, errors |-> errors_,
          session |-> session_, err |-> ""]
    ELSE IF a > Len(acts)
    THEN process_records_loop_no_reset(acts, st, recs, schema_, i + 1, 1, FALSE,
             IF commit_record /\ i \in fails THEN Append(errors_, i) ELSE errors_,
             IF commit_record /\ i \notin fails
             THEN Append(session_, [id |-> i, content |-> Deref(st, recs[i])])
             ELSE session_, fails)
    ELSE With(apply_action(acts[a], st, recs[i], schema_, 0, 0, acts[a].changed),
              LAMBDA r :
                IF r.err # ""
                THEN [records |-> [recs EXCEPT ![i] = r.rec], st |-> r.st,
                      class_actions |-> [acts EXCEPT ![a].changed = r.changed],
                      errors |-> errors_, session |-> session_, err |-> r.err]
                ELSE process_records_loop_no_reset(
                         [acts EXCEPT ![a].changed = r.changed], r.st,
                         [recs EXCEPT ![i] = r.rec], schema_, i, a + 1,
                         commit_record \/ r.changed, errors_, session_, fails))

\* The loops of process_records (tasks.py, lines 41-52) from record i and
\* action a on.  record.commit() of the records in fails raises, and the
\* record's position stands for the message of the exception; the commit of
\* another record stores its content.  An exception of apply_action is not
\* caught.  The result is [records, st, class_actions, errors, session, err].
RECURSIVE process_records_loop(_, _, _, _, _, _, _, _, _, _)
process_records_loop(acts, st, recs, schema_, i, a, commit_record, errors_, session_, fails) ==
    IF i > Len(recs)
    THEN [records |-> recs, st |-> st, class_actions |-> acts, errors |-> errors_,
          session |-> session_, err |-> ""]
    ELSE IF a > Len(acts)
    THEN IF commit_record /\ i \in fails
         THEN process_records_loop(acts, st, recs, schema_, i + 1, 1, FALSE,
                                   Append(errors_, i), session_, fails)
         ELSE IF commit_record
         THEN process_records_loop(acts, st, recs, schema_, i + 1, 1, FALSE, errors_,
                  Append(session_, [id |-> i, content |-> Deref(st, recs[i])]), fails)
         ELSE process_records_loop(acts, st, recs, schema_, i + 1, 1, FALSE, errors_,
                                   session_, fails)
    ELSE With(apply_action(acts[a], st, recs[i], schema_, 0, 0, acts[a].changed),
              LAMBDA r :
                LET recs2 == [recs EXCEPT ![i] = r.rec]
                IN IF r.err # ""
                   THEN [records |-> recs2, st |-> r.st,
                         class_actions |-> [acts EXCEPT ![a].changed = r.changed],
                         errors |-> errors_, session |-> session_, err |-> r.err]
                   ELSE process_records_loop([acts EXCEPT ![a].changed = FALSE], r.st,
                            recs2, schema_, i, a + 1, commit_record \/ r.changed,
                            errors_, session_, fails))

\* process_records after Record.get_records; db.session.commit() is reached
\* when err is "".
process_records(user_actions_, st, recs, schema_, fails) ==
    With(get_actions(user_actions_), LAMBDA g :
      IF g.err # "" \/ (g.none /\ recs # <<>>)
      THEN [records |-> recs, st |-> st, class_actions |-> <<>>, errors |-> <<>>,
            session |-> <<>>, err |-> IF g.err # "" THEN g.err ELSE "TypeError"]
      ELSE process_records_loop(g.actions, st, recs, schema_, 1, 1, FALSE, <<>>, <<>>,
                                fails))

\* The content of record i, references expanded.
Content(i) == Deref(store, records[i])

\* class_action.apply_action(record, schema) on the first record, called as
\* the unit tests call it: position 0, checked 0.
ApplyAction ==
    /\ pc = "ready"
    /\ \E r \in {apply_action(class_actions[1], store, records[1], schema, 0, 0,
                               class_actions[1].changed)} :
          /\ records' = [records EXCEPT ![1] = r.rec]
          /\ store' = r.st
          /\ class_actions' = [class_actions EXCEPT ![1].changed = r.changed]
          /\ err' = r.err
    /\ pc' = "applied"
    /\ UNCHANGED <<before, schema, user_actions, built, out, errors, session>>

\* The same call made once more on the record as the first call left it.
ApplyActionAgain ==
    /\ pc = "applied"
    /\ err = ""
    /\ \E r \in {apply_action(class_actions[1], store, records[1], schema, 0, 0,
                               class_actions[1].changed)} :
          /\ records' = [records EXCEPT ![1] = r.rec]
          /\ store' = r.st
          /\ class_actions' = [class_actions EXCEPT ![1].changed = r.changed]
          /\ err' = r.err
    /\ pc' = "applied again"
    /\ UNCHANGED <<before, schema, user_actions, built, out, errors, session>>

\* create_schema_record(schema, path, value) with the path and the value of
\* the first Action object; the result is merged into the empty record.
CreateSchemaRecord ==
    /\ pc = "synth"
    /\ \E c \in {create_schema_record(schema, class_actions[1].keys,
                                       class_actions[1].value)} :
          /\ records' = <<IF c.err = "" THEN Obj(Merge(EmptyMap, c.val.m)) ELSE EmptyObj>>
          /\ out' = IF c.err = "" THEN c.val ELSE None
          /\ err' = c.err
    /\ pc' = "created"
    /\ UNCHANGED <<store, before, schema, user_actions, class_actions, built, errors, session>>

\* check_value(record, match_type, keys, value, 0) with the first condition of
\* the first Action object, on the first record.
CheckValue ==
    /\ pc = "cond"
    /\ \E r \in {check_value(store, records[1],
                              class_actions[1].conditions[1].match_type,
                              class_actions[1].conditions[1].keys,
                              class_actions[1].conditions[1].value, 0)} :
          /\ out' = IF r.err = "" THEN Bool(r.val) ELSE None
          /\ err' = r.err
    /\ pc' = "checked"
    /\ UNCHANGED <<store, records, before, schema, user_actions, class_actions, built, errors, session>>

\* class_actions = get_actions(user_actions)
GetActions ==
    /\ pc = "described"
    /\ \E g \in {get_actions(user_actions)} :
          /\ class_actions' = g.actions
          /\ built' = IF g.err # "" THEN g.err ELSE IF g.none THEN "None" ELSE "list"
          /\ err' = g.err
    /\ pc' = "built"
    /\ UNCHANGED <<store, records, before, schema, user_actions, out, errors, session>>

\* process_records_no_db(user_actions, records, schema)
ProcessRecordsNoDb ==
    /\ pc = "batch"
    /\ \E r \in {process_records_no_db(user_actions, store, records, schema)} :
          /\ records' = r.records
          /\ store' = r.st
          /\ class_actions' = r.class_actions
          /\ err' = r.err
          /\ out' = IF r.err = "" THEN Arr(r.records) ELSE None
    /\ pc' = "processed"
    /\ UNCHANGED <<before, schema, user_actions, built, errors, session>>

\* The task process_records; which commits raise is the record store's choice.
ProcessRecords ==
    /\ pc = "task"
    /\ \E fails \in SUBSET (1..Len(records)) :
       \E r \in {process_records(user_actions, store, records, schema, fails)} :
          /\ records' = r.records
          /\ store' = r.st
          /\ class_actions' = r.class_actions
          /\ errors' = r.errors
          /\ session' = r.session
          /\ err' = r.err
    /\ pc' = "task done"
    /\ UNCHANGED <<before, schema, user_actions, built, out>>

\* The state in which one Action object is about to be applied to one record.
Ready(record, action, schema_, st) ==
    /\ pc = "ready"
    /\ store = st
    /\ records = <<record>>
    /\ before = <<Deref(st, record)>>
    /\ schema = schema_
    /\ user_actions = NoUserActions
    /\ class_actions = <<action>>
    /\ built = "list"
    /\ out = None
    /\ err = ""
    /\ errors = <<>>
    /\ session = <<>>

-----------------------------------------------------------------------------
(* Inputs *)

key_a == <<"a">>
key_b == <<"b">>
key_c == <<"c">>

val1 == Str(<<"1">>)
val6 == Str(<<"6">>)

\* The sequences over S of length at most n.
SeqsUpTo(S, n) == UNION {[1..k -> S] : k \in 0..n}

NoStore == <<None>>

-----------------------------------------------------------------------------
(* Deletion from the string arrays of an array of objects *)

MaxLeaf == 2       \* longest leaf array
MaxElems == 2      \* most objects in record[key_a]

LeafStrings == {EmptyStr, val1, val6}
LeafArrays == {Arr(e) : e \in SeqsUpTo(LeafStrings, MaxLeaf)}

\* An object holding a leaf array under key_c, alone or beside key_b.
LeafObj(leaf, other) ==
    IF other THEN Obj(Merge(One(key_c, leaf), One(key_b, val1)))
    ELSE Obj(One(key_c, leaf))

InitDeletion ==
    \E other \in BOOLEAN, value_to_check \in {val6} :
    \E leaves \in SeqsUpTo(LeafArrays, MaxElems) :
        Ready(Obj(One(key_a, Arr([j \in 1..Len(leaves) |-> LeafObj(leaves[j], other)]))),
              Action("Deletion", <<key_a, key_c>>, None, "equal", value_to_check, <<>>),
              SEmpty, NoStore)

SpecDeletion == InitDeletion /\ [][ApplyAction]_vars

\* What the elements of a leaf array become: those equal to the match value
\* and the empty strings are gone, the others stay in order.
RECURSIVE LeafKept(_, _)
LeafKept(e, value_to_check) ==
    IF e = <<>> THEN <<>>
    ELSE (IF Head(e) = value_to_check \/ Head(e) = EmptyStr THEN <<>> ELSE <<Head(e)>>)
         \o LeafKept(Tail(e), value_to_check)

\* What an object of record[key_a] becomes: <<>> when it is removed.
ObjAfter(o, value_to_check) ==
    LET leaf == o.m[key_c].e
        kept == LeafKept(leaf, value_to_check)
    IN IF leaf = <<>> THEN <<o>>
       ELSE IF kept # <<>> THEN <<Obj(Merge(o.m, One(key_c, Arr(kept))))>>
       ELSE IF DOMAIN o.m = {key_c} THEN <<>>
       ELSE <<Obj(Without(o.m, key_c))>>

RECURSIVE ObjsAfter(_, _)
ObjsAfter(objs, value_to_check) ==
    IF objs = <<>> THEN <<>>
    ELSE ObjAfter(Head(objs), value_to_check) \o ObjsAfter(Tail(objs), value_to_check)

RecordAfter(rec, value_to_check) ==
    LET objs == rec.m[key_a].e
        left == ObjsAfter(objs, value_to_check)
    IN IF objs = <<>> THEN rec
       ELSE IF left = <<>> THEN Obj(Without(rec.m, key_a))
       ELSE Obj(Merge(rec.m, One(key_a, Arr(left))))

RECURSIVE LeafKeptExactly(_, _)
LeafKeptExactly(e, value_to_check) ==
    IF e = <<>> THEN <<>>
    ELSE (IF Head(e) = value_to_check THEN <<>> ELSE <<Head(e)>>)
         \o LeafKeptExactly(Tail(e), value_to_check)

RECURSIVE ObjsAfterAsStated(_, _)
ObjsAfterAsStated(objs, value_to_check) ==
    IF objs = <<>> THEN <<>>
    ELSE LET o == Head(objs)
             leaf == o.m[key_c].e
             kept == LeafKeptExactly(leaf, value_to_check)
         IN (IF leaf = <<>> THEN <<o>>
             ELSE IF kept = <<>> THEN <<>>
             ELSE <<Obj(Merge(o.m, One(key_c, Arr(kept))))>>)
            \o ObjsAfterAsStated(Tail(objs), value_to_check)

-----------------------------------------------------------------------------
(* Addition to a record that lacks the first key of the path *)

MaxConds == 2      \* most conditions of a rule set

\* key_a: an array of objects with a string under key_b; key_b: a string;
\* key_c: an array of objects with a string under key_b.
AdditionSchema ==
    SObj([k \in {key_a, key_b, key_c} |->
            IF k = key_b THEN SStr ELSE SArr(SObj(One(key_b, SStr)))])

\* Records without key_a.
AdditionRecords ==
    {Obj(Merge(mb, mc)) :
        mb \in {EmptyMap, One(key_b, val1), One(key_b, Bool(FALSE))},
        mc \in {EmptyMap, One(key_c, Arr(<<val1, val6>>)),
                One(key_c, Arr(<<Obj(One(key_b, val6)), Obj(One(key_b, val1))>>))}}

ConditionPool ==
    {Condition(keys, val1, match_type) :
        keys \in {<<key_b>>, <<key_c>>, <<key_c, key_b>>, <<key_a>>, <<key_a, key_b>>},
        match_type \in {"equal", "missing", "contains"}}

InitAddition ==
    \E record \in AdditionRecords, keys \in {<<key_a>>, <<key_a, key_b>>} :
    \E conditions \in SeqsUpTo(ConditionPool, MaxConds) :
        Ready(record, Action("Addition", keys, val6, "", None, conditions),
              AdditionSchema, NoStore)

SpecAddition == InitAddition /\ [][ApplyAction]_vars

\* The conditions of the action that check_value finds true on the record as
\* it was handed over.
TrueConditions(self, rec) ==
    {c \in 1..Len(self.conditions) :
        LET r == check_value(NoStore, rec, self.conditions[c].match_type,
                             self.conditions[c].keys, self.conditions[c].value, 0)
        IN r.err = "" /\ r.val}

\* C2: on a record without the first key of its path, Addition creates the
\* nested structure only when as many conditions evaluate true as are
\* declared; otherwise the record is as it was.
C2_CreationGated ==
    (pc = "applied" /\ KeyAt(class_actions[1].keys, 0) \notin DOMAIN before[1].m) =>
        LET self == class_actions[1]
            all_true == Cardinality(TrueConditions(self, before[1])) = Len(self.conditions)
        IN /\ ~all_true => (Content(1) = before[1] /\ ~self.changed)
           /\ Content(1) # before[1] =>
                /\ all_true
                /\ Content(1) = Obj(Merge(before[1].m,
                        create_schema_record(schema, self.keys, self.value).val.m))

\* C2 witness: two declared conditions, both true, and the structure is there.
C2_Witness ==
    /\ pc = "applied"
    /\ Len(class_actions[1].conditions) = 2
    /\ class_actions[1].conditions[1] # class_actions[1].conditions[2]
    /\ key_a \notin DOMAIN before[1].m
    /\ Content(1) = Obj(Merge(before[1].m,
                              One(key_a, Arr(<<Obj(One(key_b, val6))>>))))

-----------------------------------------------------------------------------
(* One action applied to records of every shape *)

valT == Bool(TRUE)

\* What record[key_a] holds: strings, arrays of strings, objects, arrays of
\* objects, arrays that mix the two, a boolean in a leaf array.
ShapePool ==
    {val1, val6, EmptyStr,
     Arr(<<val1>>), Arr(<<val6, val1>>), Arr(<<EmptyStr, val1>>), Arr(<<valT, val6>>),
     EmptyObj, Obj(One(key_b, val6)), Obj(One(key_c, val1)),
     Obj(One(key_b, Arr(<<val6, val1>>))),
     Arr(<<EmptyObj>>), Arr(<<EmptyObj, Obj(One(key_c, val1))>>),
     Arr(<<Obj(One(key_b, val6))>>), Arr(<<Obj(One(key_b, val1)), Obj(One(key_b, val6))>>),
     Arr(<<Obj(One(key_b, Arr(<<val6, val1>>)))>>),
     Arr(<<val1, Obj(One(key_b, val6))>>)}

ShapeRecords ==
    {Obj(mc) : mc \in {EmptyMap, One(key_c, val1)}}
    \cup {Obj(Merge(One(key_a, x), mc)) :
            x \in ShapePool, mc \in {EmptyMap, One(key_c, val1)}}

InitApply ==
    \E record \in ShapeRecords, kind \in {"Addition", "Deletion", "Update"} :
    \E keys \in {<<key_a>>, <<key_a, key_b>>} :
    \E match_type \in {"equal", "contains", "regex"}, schema_ \in {SEmpty, AdditionSchema} :
        Ready(record, Action(kind, keys, val1, match_type, val6, <<>>), schema_, NoStore)

SpecApply == InitApply /\ [][ApplyAction]_vars

\* Some branch of the path can be followed to its last key in n.
RECURSIVE Complete(_, _, _)
Complete(n, keys, position) ==
    /\ IsDict(n)
    /\ KeyAt(keys, position) \in DOMAIN n.m
    /\ \/ position = Len(keys) - 1
       \/ LET child == n.m[KeyAt(keys, position)]
          IN IF IsList(child)
             THEN \E j \in 1..Len(child.e) : Complete(child.e[j], keys, position + 1)
             ELSE Complete(child, keys, position + 1)

\* Every value met along the path in n is an object or an array of objects.
RECURSIVE Shaped(_, _, _)
Shaped(n, keys, position) ==
    /\ IsDict(n)
    /\ (KeyAt(keys, position) \in DOMAIN n.m /\ position < Len(keys) - 1) =>
          LET child == n.m[KeyAt(keys, position)]
          IN IF IsList(child)
             THEN \A j \in 1..Len(child.e) : Shaped(child.e[j], keys, position + 1)
             ELSE Shaped(child, keys, position + 1)

\* The record lacks a segment of the path on every branch.
LacksSegment(rec, keys) == Shaped(rec, keys, 0) /\ ~Complete(rec, keys, 0)

\* C3: a Deletion or an Update on a record that lacks a segment of the path
\* (here: on every branch) leaves the record as it was and changed false.
C3_MissingSegmentIsNoOp ==
    (/\ pc = "applied"
     /\ class_actions[1].kind \in {"Deletion", "Update"}
     /\ LacksSegment(before[1], class_actions[1].keys)) =>
        /\ err = ""
        /\ Content(1) = before[1]
        /\ ~class_actions[1].changed

\* C3: the state in which Deletion on [key_a, key_b] has taken the empty object
\* out of key_a = [{}, {key_c: val1}], where no element holds key_b.
C3_PrunedWithoutMatch ==
    /\ pc = "applied"
    /\ class_actions[1].kind = "Deletion"
    /\ class_actions[1].keys = <<key_a, key_b>>
    /\ before[1] = Obj(One(key_a, Arr(<<EmptyObj, Obj(One(key_c, val1))>>)))
    /\ Content(1) = Obj(One(key_a, Arr(<<Obj(One(key_c, val1))>>)))
    /\ ~class_actions[1].changed

\* C4: apply_action of the three classes never ends in an error, whatever the
\* shape of the record.
C4_NeverRaises == pc = "applied" => err = ""

\* C4: the state in which Update on [key_a, key_b] met the string under key_a
\* and ended with AttributeError.
C4_RaisedOnScalar ==
    /\ pc = "applied"
    /\ class_actions[1].kind = "Update"
    /\ class_actions[1].keys = <<key_a, key_b>>
    /\ schema = AdditionSchema
    /\ before[1] = Obj(One(key_a, val1))
    /\ err = "AttributeError"

\* C7: after an application that returned, changed is true exactly when the
\* record differs from what it was.
C7_ChangedIffMutated ==
    (pc = "applied" /\ err = "") =>
        (class_actions[1].changed <=> Content(1) # before[1])

\* C7: the state in which Deletion with Equal has taken val6 out of the array
\* under key_a and changed is still false.
C7_MutatedButUnflagged ==
    /\ pc = "applied"
    /\ class_actions[1].kind = "Deletion"
    /\ class_actions[1].keys = <<key_a>>
    /\ before[1] = Obj(One(key_a, Arr(<<val6, val1>>)))
    /\ Content(1) = Obj(One(key_a, Arr(<<val1>>)))
    /\ ~class_actions[1].changed
    /\ err = ""

-----------------------------------------------------------------------------
(* create_schema_record on the paths that a schema declares *)

MaxPath == 2       \* longest path

key_d == <<"d">>

\* key_a: an array of objects; key_d: an object; key_b: a string; key_c: an
\* array of strings; the objects hold key_b and key_c of the same kinds.
SynthProps ==
    LET inner == [k \in {key_b, key_c} |-> IF k = key_b THEN SStr ELSE SArr(SStr)]
    IN [k \in {key_a, key_b, key_c, key_d} |->
          CASE k = key_a -> SArr(SObj(inner))
            [] k = key_d -> SObj(inner)
            [] k = key_b -> SStr
            [] OTHER -> SArr(SStr)]

SynthSchemas == {SObj(SynthProps), SArr(SObj(SynthProps)), SEmpty}

SynthPaths == SeqsUpTo({key_a, key_b, key_c, key_d}, MaxPath) \ {<<>>}

InitSynth ==
    \E schema_ \in SynthSchemas, path \in SynthPaths :
    \E value \in {val6, Obj(One(key_b, val6))} :
        /\ pc = "synth"
        /\ store = NoStore
        /\ records = <<EmptyObj>>
        /\ before = <<EmptyObj>>
        /\ schema = schema_
        /\ user_actions = NoUserActions
        /\ class_actions = <<Action("Addition", path, value, "", None, <<>>)>>
        /\ built = "list"
        /\ out = None
        /\ err = ""
        /\ errors = <<>>
        /\ session = <<>>

SpecSynth == InitSynth /\ [][CreateSchemaRecord]_vars

\* The schema declares every key of the path from key j on; props is the
\* properties dict in which key j is looked up.
RECURSIVE DeclaredIn(_, _, _)
DeclaredIn(props, path, j) ==
    \/ j > Len(path)
    \/ /\ path[j] \in DOMAIN props
       /\ LET node == props[path[j]]
          IN \/ j = Len(path)
             \/ node.type = "object" /\ DeclaredIn(node.properties, path, j + 1)
             \/ /\ node.type = "array"
                /\ node.items.type = "object"
                /\ DeclaredIn(node.items.properties, path, j + 1)

Declared(schema_, path) ==
    \/ schema_.type = "object" /\ DeclaredIn(schema_.properties, path, 1)
    \/ /\ schema_.type = "array"
       /\ schema_.items.type = "object"
       /\ DeclaredIn(schema_.items.properties, path, 1)

\* Reading n along the path from key j on, an array standing for its one element.
RECURSIVE ReadBack(_, _, _)
ReadBack(n, path, j) ==
    IF j > Len(path) THEN Ret(n)
    ELSE IF ~IsDict(n) \/ path[j] \notin DOMAIN n.m THEN Raise("KeyError")
    ELSE LET child == n.m[path[j]]
         IN IF IsList(child)
            THEN IF Len(child.e) = 1 THEN ReadBack(child.e[1], path, j + 1)
                 ELSE Raise("IndexError")
            ELSE ReadBack(child, path, j + 1)

\* C5: when the schema declares every key of the path, the synthesized record
\* read back along the path is the value.
C5_RoundTrip ==
    (pc = "created" /\ Declared(schema, class_actions[1].keys)) =>
        /\ err = ""
        /\ ReadBack(records[1], class_actions[1].keys, 1) = Ret(class_actions[1].value)

\* C5: the state in which the path [key_d, key_c], an array of strings inside
\* an object, gave key_d: {key_c: [{key_c: val6}]}.
C5_LeafArrayWrapped ==
    /\ pc = "created"
    /\ schema = SObj(SynthProps)
    /\ class_actions[1].keys = <<key_d, key_c>>
    /\ class_actions[1].value = val6
    /\ records[1] = Obj(One(key_d, Obj(One(key_c, Arr(<<Obj(One(key_c, val6))>>)))))

-----------------------------------------------------------------------------
(* get_actions on rule descriptions *)

MaxKey == 3        \* longest mainKey, in characters
MaxActions == 2    \* most action descriptions of a rule description

KeyStrings == SeqsUpTo({"a", "b", "/"}, MaxKey)

ActionDescs ==
    {UserAction(actionName, mainKey, val6, "equal", val1) :
        actionName \in {"Addition", "Deletion", "Update", "Other"},
        mainKey \in {Str(s) : s \in KeyStrings} \cup {None}}

\* The descriptions that come before the last one of a rule description.
FirstDescs ==
    SeqsUpTo({UserAction("Addition", Str(<<"a">>), val6, "", None),
              UserAction("Update", EmptyStr, val6, "equal", val1)}, MaxActions - 1)

InitBuild ==
    \E user_actions_ \in {NoUserActions}
            \cup {UserActions(c, a) :
                    c \in {<<>>, <<UserCondition(<<>>, val1, "equal"),
                                   UserCondition(<<"a", "/", "b">>, val1, "equal")>>},
                    a \in {<<>>} \cup {Append(f, l) : f \in FirstDescs, l \in ActionDescs}} :
        /\ pc = "described"
        /\ store = NoStore
        /\ records = <<>>
        /\ before = <<>>
        /\ schema = SEmpty
        /\ user_actions = user_actions_
        /\ class_actions = <<>>
        /\ built = "none"
        /\ out = None
        /\ err = ""
        /\ errors = <<>>
        /\ session = <<>>

SpecBuild == InitBuild /\ [][GetActions]_vars

\* Some action description has the empty mainKey.
HasEmptyMainKey(user_actions_) ==
    \E j \in 1..Len(user_actions_.actions) : user_actions_.actions[j].mainKey = EmptyStr

\* C6: a description with an empty mainKey yields no list of actions:
\* get_actions returns None or raises.
C6_EmptyMainKeyAborts ==
    (pc = "built" /\ HasEmptyMainKey(user_actions)) =>
        /\ built # "list"
        /\ class_actions = <<>>

\* C6: the state in which the one description, a Deletion with mainKey '',
\* became an action with the path [''].
C6_BuiltWithEmptyKey ==
    /\ pc = "built"
    /\ user_actions = UserActions(<<>>, <<UserAction("Deletion", EmptyStr, val6,
                                                      "equal", val1)>>)
    /\ built = "list"
    /\ Len(class_actions) = 1
    /\ class_actions[1].keys = <<EmptyStr.v>>

-----------------------------------------------------------------------------
(* process_records_no_db on two records *)

\* The one shared object: the value of the Addition descriptions.
BatchStore == <<Obj(One(key_b, Arr(<<val1>>)))>>

\* key_a: an array of objects with an array of strings under key_b.
BatchSchema ==
    SObj(One(key_a, SArr(SObj(One(key_b, SArr(SStr))))))

\* Objects are added under key_a and strings under key_b, as the schema has it.
BatchDescs ==
    {UserAction("Addition", Str(<<"a">>), Ref(1), "", None),
     UserAction("Addition", Str(<<"a", "/", "b">>), val6, "", None)}
    \cup {UserAction(actionName, Str(<<"a", "/", "b">>), val6, "equal", val1) :
            actionName \in {"Deletion", "Update"}}

BatchRecords ==
    {EmptyObj, Obj(One(key_c, val1)),
     Obj(One(key_a, Arr(<<Obj(One(key_b, Arr(<<val1>>)))>>)))}

InitBatch ==
    \E a \in SeqsUpTo(BatchDescs, MaxActions), A \in BatchRecords, B \in BatchRecords :
        /\ pc = "batch"
        /\ store = BatchStore
        /\ records = <<A, B>>
        /\ before = <<A, B>>
        /\ schema = BatchSchema
        /\ user_actions = UserActions(<<>>, a)
        /\ class_actions = <<>>
        /\ built = "none"
        /\ out = None
        /\ err = ""
        /\ errors = <<>>
        /\ session = <<>>

SpecBatch == InitBatch /\ [][ProcessRecordsNoDb]_vars

\* The content of the record rec after the rule set was applied to it alone.
Alone(rec) ==
    With(process_records_no_db(user_actions, BatchStore, <<rec>>, schema),
         LAMBDA r : [content |-> Deref(r.st, r.records[1]), err |-> r.err])

\* C8: after a call that returned, each record is what the rule set makes of
\* it alone.
C8_RecordsIndependent ==
    (pc = "processed" /\ err = "") =>
        \A i \in 1..Len(records) :
            Alone(before[i]) = [content |-> Content(i), err |-> ""]

\* C8: the state in which both empty records hold key_b = [val1, val6, val6]
\* in the shared object added under key_a, val6 having been added once per record.
C8_SharedValueRewritten ==
    /\ pc = "processed"
    /\ err = ""
    /\ before = <<EmptyObj, EmptyObj>>
    /\ Alone(EmptyObj).content =
          Obj(One(key_a, Arr(<<Obj(One(key_b, Arr(<<val1, val6>>)))>>)))
    /\ Content(1) = Obj(One(key_a, Arr(<<Obj(One(key_b, Arr(<<val1, val6, val6>>)))>>)))
    /\ Content(2) = Content(1)

-----------------------------------------------------------------------------
(* check_value on one condition *)

val0 == Num(<<"0">>)
valF == Bool(FALSE)

\* What a key holds at the end of a condition path.
CondLeaves ==
    {val1, val6, EmptyStr, valF, val0, EmptyArr,
     Arr(<<val1, val6>>), Arr(<<val6>>), Arr(<<EmptyStr, val1>>)}

CondRecords ==
    {EmptyObj, Obj(One(key_b, val1))}
    \cup {Obj(One(key_a, x)) : x \in CondLeaves}
    \cup {Obj(One(key_a, Obj(One(key_b, x)))) : x \in CondLeaves}
    \cup {Obj(One(key_a, Arr(<<Obj(One(key_b, val1)), Obj(One(key_b, x))>>))) :
            x \in CondLeaves}

InitCond ==
    \E record \in CondRecords, keys \in {<<key_a>>, <<key_a, key_b>>} :
    \E match_type \in {"equal", "contains", "regex", "missing"} :
    \E value \in {val1, val6, EmptyStr, valF} :
        /\ pc = "cond"
        /\ store = NoStore
        /\ records = <<record>>
        /\ before = <<record>>
        /\ schema = SEmpty
        /\ user_actions = NoUserActions
        /\ class_actions = <<Action("Update", keys, None, "", None,
                                    <<Condition(keys, value, match_type)>>)>>
        /\ built = "list"
        /\ out = None
        /\ err = ""
        /\ errors = <<>>
        /\ session = <<>>

SpecCond == InitCond /\ [][CheckValue]_vars

\* Every key of the path is present on every branch of n.
RECURSIVE AllPresent(_, _, _)
AllPresent(n, keys, position) ==
    /\ IsDict(n)
    /\ KeyAt(keys, position) \in DOMAIN n.m
    /\ \/ position = Len(keys) - 1
       \/ LET child == n.m[KeyAt(keys, position)]
          IN IF IsList(child)
             THEN \A j \in 1..Len(child.e) : AllPresent(child.e[j], keys, position + 1)
             ELSE AllPresent(child, keys, position + 1)

\* The leaves reachable along the path, any element of every array met.
RECURSIVE Leaves(_, _, _)
Leaves(n, keys, position) ==
    LET child == n.m[KeyAt(keys, position)]
        below == IF IsList(child) THEN {child.e[j] : j \in 1..Len(child.e)} ELSE {child}
    IN IF position = Len(keys) - 1 THEN below
       ELSE UNION {Leaves(x, keys, position + 1) : x \in below}

\* The leaf satisfies the predicate: Equal compares, Contains and RegexSearch
\* look for the value as a piece of the leaf.
Satisfies(match_type, value, leaf) ==
    IF match_type = "equal" THEN Norm(leaf) = Norm(value)
    ELSE IsStr(leaf) /\ IsStr(value) /\ IsSubstring(value.v, leaf.v)

\* C9: on a path whose keys are all present, with strings where Contains and
\* RegexSearch need them, check_value holds exactly when some reachable leaf
\* satisfies the predicate.
C9_Existential ==
    LET c == class_actions[1].conditions[1]
    IN (/\ pc = "checked"
        /\ c.match_type \in {"equal", "contains", "regex"}
        /\ AllPresent(before[1], c.keys, 0)
        /\ c.match_type # "equal" =>
              /\ IsStr(c.value)
              /\ \A x \in Leaves(before[1], c.keys, 0) : IsStr(x)) =>
            /\ err = ""
            /\ out = Bool(\E x \in Leaves(before[1], c.keys, 0) :
                              Satisfies(c.match_type, c.value, x))

\* C9: the state in which Equal with '' on key_a = '' was found false.
C9_EmptyLeafNotCompared ==
    /\ pc = "checked"
    /\ before[1] = Obj(One(key_a, EmptyStr))
    /\ class_actions[1].conditions[1] = Condition(<<key_a>>, EmptyStr, "equal")
    /\ out = Bool(FALSE)

\* C10: on a one-key path, Missing holds exactly when the key is absent, and
\* Equal against a present value that is not an array compares the value.
C10_MissingIffAbsent ==
    LET c == class_actions[1].conditions[1]
        key == KeyAt(c.keys, 0)
    IN (pc = "checked" /\ Len(c.keys) = 1) =>
        /\ c.match_type = "missing" =>
              (err = "" /\ out = Bool(key \notin DOMAIN before[1].m))
        /\ (c.match_type = "equal" /\ key \in DOMAIN before[1].m
                /\ ~IsList(before[1].m[key])) =>
              (err = "" /\ out = Bool(Norm(before[1].m[key]) = Norm(c.value)))

\* C10: the state in which Missing on key_a = false was found true.
C10_FalseTakenForMissing ==
    /\ pc = "checked"
    /\ before[1] = Obj(One(key_a, valF))
    /\ class_actions[1].conditions[1].keys = <<key_a>>
    /\ class_actions[1].conditions[1].match_type = "missing"
    /\ out = Bool(TRUE)

-----------------------------------------------------------------------------
(* The same Addition applied twice to array leaves *)

\* The non-empty arrays of strings.
TwiceLeaves == {Arr(e) : e \in SeqsUpTo({val1, val6}, MaxLeaf)} \ {EmptyArr}

\* key_a holds the leaf array itself, or an object or two objects that hold
\* it under key_b; key_c is there or not for the condition.
TwiceRecords(keys) ==
    {Obj(Merge(One(key_a, x), mc)) :
        x \in (IF Len(keys) = 1 THEN TwiceLeaves
               ELSE {Obj(One(key_b, l)) : l \in TwiceLeaves}
                    \cup {Arr(<<Obj(One(key_b, l1)), Obj(One(key_b, l2))>>) :
                            l1 \in TwiceLeaves, l2 \in TwiceLeaves}),
        mc \in {EmptyMap, One(key_c, val1)}}

InitTwice ==
    \E keys \in {<<key_a>>, <<key_a, key_b>>}, value \in {val1, val6} :
    \E record \in TwiceRecords(keys) :
    \E conditions \in {<<>>, <<Condition(<<key_c>>, val1, "equal")>>} :
    \E schema_ \in {SEmpty, AdditionSchema} :
        Ready(record, Action("Addition", keys, value, "", None, conditions),
              schema_, NoStore)

SpecTwice == InitTwice /\ [][ApplyAction \/ ApplyActionAgain]_vars

\* The record with value, value put at the end of every leaf array of the path.
RECURSIVE GrownByTwo(_, _, _, _)
GrownByTwo(n, keys, position, value) ==
    LET key == KeyAt(keys, position)
        child == n.m[key]
    IN Obj(Merge(n.m, One(key,
          IF position = Len(keys) - 1 THEN Arr(child.e \o <<value, value>>)
          ELSE IF IsList(child)
          THEN Arr([j \in 1..Len(child.e) |->
                      GrownByTwo(child.e[j], keys, position + 1, value)])
          ELSE GrownByTwo(child, keys, position + 1, value))))

\* C11: after the same Addition was applied twice, its conditions holding,
\* every leaf array of the path is the array it was followed by two copies of
\* the value, also when it held the value before.
C11_AppendsTwice ==
    (/\ pc = "applied again"
     /\ Cardinality(TrueConditions(class_actions[1], before[1]))
            = Len(class_actions[1].conditions)) =>
        /\ err = ""
        /\ Content(1) = GrownByTwo(before[1], class_actions[1].keys, 0,
                                   class_actions[1].value)

\* C11 witness: [val6, val1] under key_b of the second object, the condition
\* on key_c holding, has become [val6, val1, val6, val6].
C11_Witness ==
    /\ pc = "applied again"
    /\ class_actions[1].conditions # <<>>
    /\ class_actions[1].value = val6
    /\ before[1].m[key_a] = Arr(<<Obj(One(key_b, Arr(<<val1>>))),
                                  Obj(One(key_b, Arr(<<val6, val1>>)))>>)
    /\ Content(1).m[key_a].e[2] = Obj(One(key_b, Arr(<<val6, val1, val6, val6>>)))

-----------------------------------------------------------------------------
(* process_records on a batch whose commits may fail *)

MaxRecords == 2    \* most records of a batch

\* key_a: a string; key_b: an array of strings.
TaskSchema ==
    SObj([k \in {key_a, key_b} |-> IF k = key_a THEN SStr ELSE SArr(SStr)])

TaskDescs ==
    {UserAction("Update", Str(<<"a">>), val6, "equal", val1),
     UserAction("Deletion", Str(<<"b">>), None, "equal", val6),
     UserAction("Addition", Str(<<"b">>), val1, "", None)}

TaskRecords ==
    {Obj(One(key_a, val1)), Obj(One(key_b, Arr(<<val6, val1>>))),
     Obj(Merge(One(key_a, val6), One(key_b, Arr(<<val1>>))))}

InitTask ==
    \E a \in SeqsUpTo(TaskDescs, MaxActions), recs \in SeqsUpTo(TaskRecords, MaxRecords) :
        /\ pc = "task"
        /\ store = NoStore
        /\ records = recs
        /\ before = recs
        /\ schema = TaskSchema
        /\ user_actions = UserActions(<<>>, a)
        /\ class_actions = <<>>
        /\ built = "none"
        /\ out = None
        /\ err = ""
        /\ errors = <<>>
        /\ session = <<>>

SpecTask == InitTask /\ [][ProcessRecords]_vars

\* The places of a sequence at which x stands.
Places(seq, x) == {j \in 1..Len(seq) : seq[j] = x}

\* C12: after a task whose applications all returned, every record is what
\* the actions applied in order make of it, a record whose commit raised is
\* in the error list, and every record that the actions changed is either
\* there or stored with its new content.
C12_PartialFailure ==
    (pc = "task done" /\ err = "") =>
        /\ records = process_records_no_db(user_actions, NoStore, before, schema).records
        /\ \A i \in 1..Len(records) :
              Content(i) # before[i] =>
                 \/ Places(errors, i) # {}
                 \/ Places(session, [id |-> i, content |-> Content(i)]) # {}

\* C12: the state in which the commit of the first record raised and the
\* second record, which lost val6 from key_b, was not stored.
C12_ChangedRecordNotStored ==
    /\ pc = "task done"
    /\ err = ""
    /\ errors = <<1>>
    /\ Len(records) = 2
    /\ before[2] = Obj(One(key_b, Arr(<<val6, val1>>)))
    /\ Content(2) = Obj(One(key_b, Arr(<<val1>>)))
    /\ session = <<>>

-----------------------------------------------------------------------------
(* create_schema_record without a schema *)

\* The nested objects, one per key of the path from key j on, value at the leaf.
RECURSIVE Chain(_, _, _)
Chain(path, value, j) ==
    Obj(One(path[j], IF j = Len(path) THEN value ELSE Chain(path, value, j + 1)))

\* C13: with the empty schema create_schema_record returns the chain of
\* nested objects of the path with the value at the leaf.
C13_EmptySchemaFallback ==
    (pc = "created" /\ schema = SEmpty) =>
        /\ err = ""
        /\ out = Chain(class_actions[1].keys, class_actions[1].value, 1)

\* C13: the state in which create_schema_record({}, [key_a], val6) ended with
\* KeyError.
C13_RaisedOnEmptySchema ==
    /\ pc = "created"
    /\ schema = SEmpty
    /\ class_actions[1].keys = <<key_a>>
    /\ class_actions[1].value = val6
    /\ err = "KeyError"

-----------------------------------------------------------------------------
(* Addition gated by a Missing condition below its own path *)

\* The path p goes on from the path q.
Extends(p, q) == Len(p) > Len(q) /\ SubSeq(p, 1, Len(q)) = q

\* C14: an Addition on a record without its key, whose one condition is
\* Missing on a path that goes on from the action's path, is applied: the
\* record holds what create_schema_record makes of the path and the value.
C14_DeeperMissingApplies ==
    LET self == class_actions[1]
    IN (/\ pc = "applied"
        /\ Len(self.conditions) = 1
        /\ self.conditions[1].match_type = "missing"
        /\ Extends(self.conditions[1].keys, self.keys)
        /\ KeyAt(self.keys, 0) \notin DOMAIN before[1].m) =>
            /\ err = ""
            /\ KeyAt(self.keys, 0) \in DOMAIN Content(1).m
            /\ Content(1) = Obj(Merge(before[1].m,
                    create_schema_record(schema, self.keys, self.value).val.m))

\* C14: the state in which the Addition on [key_a] with Missing on
\* [key_a, key_b] has left the empty record empty.
C14_DeeperMissingSkipped ==
    /\ pc = "applied"
    /\ class_actions[1].keys = <<key_a>>
    /\ class_actions[1].conditions = <<Condition(<<key_a, key_b>>, val1, "missing")>>
    /\ before[1] = EmptyObj
    /\ Content(1) = EmptyObj
    /\ ~class_actions[1].changed
    /\ err = ""

-----------------------------------------------------------------------------
(* The order of the actions of a rule set *)

\* key_a and key_c: strings; key_b: an array of strings.
OrderSchema ==
    SObj([k \in {key_a, key_b, key_c} |-> IF k = key_b THEN SArr(SStr) ELSE SStr])

OrderDescs ==
    {UserAction("Update", Str(<<"c">>), val6, "equal", val1),
     UserAction("Update", Str(<<"a">>), val6, "equal", val1),
     UserAction("Update", Str(<<"a">>), val1, "equal", val6),
     UserAction("Addition", Str(<<"b">>), val1, "", None),
     UserAction("Deletion", Str(<<"b">>), None, "equal", val1)}

OrderRecords ==
    {Obj(Merge(One(key_a, val1), One(key_c, val1))),
     Obj(Merge(One(key_a, val6), Merge(One(key_b, Arr(<<val1>>)), One(key_c, val1)))),
     Obj(One(key_a, val1))}

InitOrder ==
    \E c \in {<<>>, <<UserCondition(<<"c">>, val1, "equal")>>} :
    \E a \in SeqsUpTo(OrderDescs, MaxActions) :
    \E recs \in SeqsUpTo(OrderRecords, MaxRecords) \ {<<>>} :
        /\ pc = "batch"
        /\ store = NoStore
        /\ records = recs
        /\ before = recs
        /\ schema = OrderSchema
        /\ user_actions = UserActions(c, a)
        /\ class_actions = <<>>
        /\ built = "none"
        /\ out = None
        /\ err = ""
        /\ errors = <<>>
        /\ session = <<>>

SpecOrder == InitOrder /\ [][ProcessRecordsNoDb]_vars

\* The record after the first n actions: action n applied to what the first
\* n - 1 actions made of it.
RECURSIVE FoldLeft(_, _, _, _)
FoldLeft(acts, rec, schema_, n) ==
    IF n = 0 THEN rec
    ELSE apply_action(acts[n], NoStore, FoldLeft(acts, rec, schema_, n - 1), schema_,
                      0, 0, FALSE).rec

\* C15: the Action objects stand in the order of the description, and after
\* a call that returned every record is the left-to-right fold of the actions
\* over the record it was, each action with its conditions applied to what the
\* actions before it made of the record.
C15_AppliedInOrder ==
    (pc = "processed" /\ err = "") =>
        /\ Len(class_actions) = Len(user_actions.actions)
        /\ \A j \in 1..Len(class_actions) :
              /\ class_actions[j].kind = user_actions.actions[j].actionName
              /\ class_actions[j].keys = split(user_actions.actions[j].mainKey.v)
        /\ \A i \in 1..Len(records) :
              records[i] = FoldLeft(class_actions, before[i], schema, Len(class_actions))

\* C15 witness: Update of key_c, then Update of key_a, both gated by key_c
\* Equal val1: the first makes the condition false for the second, so key_a
\* keeps val1; in the other order both would apply.
C15_Witness ==
    /\ pc = "processed"
    /\ err = ""
    /\ user_actions = UserActions(<<UserCondition(<<"c">>, val1, "equal")>>,
                                  <<UserAction("Update", Str(<<"c">>), val6, "equal", val1),
                                    UserAction("Update", Str(<<"a">>), val6, "equal", val1)>>)
    /\ before = <<Obj(Merge(One(key_a, val1), One(key_c, val1)))>>
    /\ records = <<Obj(Merge(One(key_a, val1), One(key_c, val6)))>>

-----------------------------------------------------------------------------
(* Deletion of a scalar leaf inside nested objects *)

\* The object that holds, under the keys of the path from key j on, nested
\* objects down to the leaf; at level i it also holds key_d when sib[i].
RECURSIVE Nest(_, _, _, _)
Nest(keys, j, sib, leaf) ==
    Obj(Merge(One(keys[j], IF j = Len(keys) THEN leaf ELSE Nest(keys, j + 1, sib, leaf)),
              IF sib[j] THEN One(key_d, val1) ELSE EmptyMap))

InitCascade ==
    \E keys \in {<<key_a>>, <<key_a, key_b>>, <<key_a, key_b, key_c>>} :
    \E sib \in [1..Len(keys) -> BOOLEAN], leaf \in {val1, val6} :
    \E match_type \in {"equal", "contains", "regex"} :
        Ready(Nest(keys, 1, sib, leaf),
              Action("Deletion", keys, None, match_type, val6, <<>>), SEmpty, NoStore)

SpecCascade == InitCascade /\ [][ApplyAction]_vars

\* The object n without the leaf of the path and without every object on the
\* path that was left with no key.
RECURSIVE Cascaded(_, _, _)
Cascaded(n, keys, position) ==
    LET key == KeyAt(keys, position)
        below == Cascaded(n.m[key], keys, position + 1)
    IN IF position = Len(keys) - 1 \/ below = EmptyObj THEN Obj(Without(n.m, key))
       ELSE Obj(Merge(n.m, One(key, below)))

\* C16: a Deletion whose value is the scalar leaf removes the leaf key and
\* every object of the path that thereby has no key left, and keeps the
\* objects that hold another key; a leaf that does not match stays.
C16_PruningCascades ==
    pc = "applied" =>
        /\ err = ""
        /\ Content(1) = IF Leaves(before[1], class_actions[1].keys, 0) = {val6}
                        THEN Cascaded(before[1], class_actions[1].keys, 0)
                        ELSE before[1]

\* C16 witness: key_a: {key_b: {key_c: val6}, key_d: val1} has become
\* key_a: {key_d: val1}, and with it alone in the record the record stays.
C16_Witness ==
    /\ pc = "applied"
    /\ class_actions[1].keys = <<key_a, key_b, key_c>>
    /\ before[1] = Obj(One(key_a, Obj(Merge(One(key_b, Obj(One(key_c, val6))),
                                            One(key_d, val1)))))
    /\ Content(1) = Obj(One(key_a, Obj(One(key_d, val1))))

-----------------------------------------------------------------------------
(* RegexSearch and Contains on string leaves *)

MaxStr == 2        \* longest string, in characters

AgreeStrings == SeqsUpTo({"a", "b", "."}, MaxStr)

\* key_a holds a string or an array of two strings; key_c holds 'ab' for the
\* condition.
AgreeRecords ==
    {Obj(Merge(One(key_a, x), One(key_c, Str(<<"a", "b">>)))) :
        x \in {Str(h) : h \in AgreeStrings}
              \cup {Arr(<<Str(h), Str(<<"a", "b">>)>>) : h \in AgreeStrings}}

InitAgree ==
    \E record \in AgreeRecords, s \in AgreeStrings, kind \in {"Deletion", "Update"} :
    \E match_type \in {"regex", "contains"} :
    \E conditions \in {<<>>} \cup {<<Condition(<<key_c>>, Str(s), m)>> :
                                      m \in {"regex", "contains"}} :
        Ready(record, Action(kind, <<key_a>>, val6, match_type, Str(s), conditions),
              SEmpty, NoStore)

SpecAgree == InitAgree /\ [][ApplyAction]_vars

\* A string without regular-expression metacharacters.
Plain(s) == \A j \in 1..Len(s) : s[j] \in Alnum

\* regex for contains and contains for regex.
Swap(match_type) ==
    IF match_type = "regex" THEN "contains"
    ELSE IF match_type = "contains" THEN "regex" ELSE match_type

Swapped(self) ==
    [self EXCEPT !.match_type = Swap(@),
                 !.conditions = [j \in 1..Len(@) |->
                                    [@[j] EXCEPT !.match_type = Swap(@)]]]

\* C17: with a plain check string, the call made with regex in the place of
\* contains and contains in the place of regex gives the same record, the
\* same flag and the same outcome, and every condition has the same result
\* under either match type.
C17_RegexAgreesWithContains ==
    (pc = "applied" /\ Plain(class_actions[1].value_to_check.v)) =>
        /\ apply_action(Swapped([class_actions[1] EXCEPT !.changed = FALSE]), NoStore,
                        before[1], schema, 0, 0, FALSE)
              = Res(records[1], store, class_actions[1].changed, err)
        /\ \A j \in 1..Len(class_actions[1].conditions) :
              LET c == class_actions[1].conditions[j]
              IN check_value(NoStore, before[1], c.match_type, c.keys, c.value, 0)
                 = check_value(NoStore, before[1], Swap(c.match_type), c.keys, c.value, 0)

\* C17 witness: Deletion with regex 'b' has taken 'ab' and 'ab' out of the
\* array under key_a, the condition Contains 'b' on key_c = 'ab' holding.
C17_Witness ==
    /\ pc = "applied"
    /\ class_actions[1].kind = "Deletion"
    /\ class_actions[1].match_type = "regex"
    /\ class_actions[1].value_to_check = Str(<<"b">>)
    /\ class_actions[1].conditions = <<Condition(<<key_c>>, Str(<<"b">>), "contains")>>
    /\ before[1].m[key_a] = Arr(<<Str(<<"a", "b">>), Str(<<"a", "b">>)>>)
    /\ key_a \notin DOMAIN Content(1).m

-----------------------------------------------------------------------------
(* An action gated by a condition on a sibling field of each array element *)

\* An element of record[key_a]: key_b holds a string or an array of strings,
\* key_c is absent or holds a string.
GatedElems ==
    {Obj(Merge(One(key_b, b), mc)) :
        b \in {val1, val6, Arr(<<val1, val6>>), Arr(<<val1>>)},
        mc \in {EmptyMap, One(key_c, val1), One(key_c, val6)}}

InitGated ==
    \E elems \in SeqsUpTo(GatedElems, MaxElems), kind \in {"Update", "Addition"} :
    \E match_type \in {"equal", "missing"}, schema_ \in {SEmpty, BatchSchema} :
        Ready(Obj(One(key_a, Arr(elems))),
              Action(kind, <<key_a, key_b>>, val6, "equal", val1,
                     <<Condition(<<key_a, key_c>>, val1, match_type)>>),
              schema_, NoStore)

SpecGated == InitGated /\ [][ApplyAction]_vars

\* The condition of the action holds on the element: Equal when key_c holds
\* the value, Missing when the element has no key_c.
HoldsOn(condition, element) ==
    IF condition.match_type = "missing" THEN key_c \notin DOMAIN element.m
    ELSE key_c \in DOMAIN element.m /\ element.m[key_c] = condition.value

\* What the action without conditions makes of one element.
Ungated(self, element, schema_) ==
    apply_action([self EXCEPT !.conditions = <<>>], NoStore, element,
                 schema_step(schema_, key_a).val, 1, 0, FALSE).rec

\* C18: the elements of record[key_a] on which the condition holds are what
\* the action without conditions makes of them, and every other element is
\* as it was.
C18_GatedPerElement ==
    pc = "applied" =>
        /\ err = ""
        /\ DOMAIN Content(1).m = {key_a}
        /\ Len(Content(1).m[key_a].e) = Len(before[1].m[key_a].e)
        /\ \A j \in 1..Len(before[1].m[key_a].e) :
              LET element == before[1].m[key_a].e[j]
              IN Content(1).m[key_a].e[j] =
                    IF HoldsOn(class_actions[1].conditions[1], element)
                    THEN Ungated(class_actions[1], element, schema)
                    ELSE element

\* C18 witness: Update of val1 under key_b gated by key_c Equal val1, on two
\* elements with key_b = val1: the first, whose key_c is val6, is as it was
\* and the second, whose key_c is val1, holds val6.
C18_Witness ==
    /\ pc = "applied"
    /\ class_actions[1].kind = "Update"
    /\ class_actions[1].conditions[1].match_type = "equal"
    /\ before[1].m[key_a] = Arr(<<Obj(Merge(One(key_b, val1), One(key_c, val6))),
                                  Obj(Merge(One(key_b, val1), One(key_c, val1)))>>)
    /\ Content(1).m[key_a] = Arr(<<Obj(Merge(One(key_b, val1), One(key_c, val6))),
                                   Obj(Merge(One(key_b, val6), One(key_c, val1)))>>)

-----------------------------------------------------------------------------
(* Addition on records that already hold the last key of the path *)

\* key_a: an object with a string under key_b; key_b: a string.
KeptSchema ==
    SObj([k \in {key_a, key_b} |-> IF k = key_b THEN SStr ELSE SObj(One(key_b, SStr))])

\* What the last key holds: strings, booleans, a number, objects, an array.
KeptLeaves ==
    {val1, EmptyStr, valT, valF, val0, EmptyObj, Obj(One(key_c, val1)), Arr(<<val1>>)}

\* key_b at the top, under the object key_a, or in the elements of the array
\* key_a; key_c beside it or not.
KeptRecords ==
    {Obj(Merge(m, mc)) :
        m \in {One(key_b, x) : x \in KeptLeaves}
              \cup {One(key_a, Obj(One(key_b, x))) : x \in KeptLeaves}
              \cup {One(key_a, Arr(<<Obj(One(key_b, val1)), Obj(One(key_b, x))>>)) :
                        x \in KeptLeaves},
        mc \in {EmptyMap, One(key_c, val1)}}

InitKept ==
    \E record \in KeptRecords, keys \in {<<key_b>>, <<key_a, key_b>>} :
    \E value \in {val6, val1}, schema_ \in {KeptSchema, AdditionSchema} :
        Ready(record, Action("Addition", keys, value, "", None, <<>>), schema_, NoStore)

SpecKept == InitKept /\ [][ApplyAction]_vars

\* The values that are not arrays held under the last key of the path, each
\* with the place it is found at: the index taken in every array met on the
\* way, 0 for an object.
RECURSIVE ScalarLeaves(_, _, _, _)
ScalarLeaves(n, keys, position, at) ==
    IF ~IsDict(n) \/ KeyAt(keys, position) \notin DOMAIN n.m THEN {}
    ELSE LET child == n.m[KeyAt(keys, position)]
         IN IF position = Len(keys) - 1
            THEN IF IsList(child) THEN {} ELSE {<<at, child>>}
            ELSE IF IsList(child)
            THEN UNION {ScalarLeaves(child.e[j], keys, position + 1, Append(at, j)) :
                            j \in 1..Len(child.e)}
            ELSE ScalarLeaves(child, keys, position + 1, Append(at, 0))

\* C19: every value that is not an array and was held under the last key of
\* the path before the Addition (false, 0 and the empty string included) is
\* held there unchanged after it.
C19_LeafNeverOverwritten ==
    pc = "applied" =>
        ScalarLeaves(before[1], class_actions[1].keys, 0, <<>>)
            \subseteq ScalarLeaves(Content(1), class_actions[1].keys, 0, <<>>)

\* C19: the state in which Addition of val6 on key_b = false left val6 there.
C19_FalseLeafOverwritten ==
    /\ pc = "applied"
    /\ class_actions[1].keys = <<key_b>>
    /\ schema = KeptSchema
    /\ before[1] = Obj(One(key_b, valF))
    /\ Content(1) = Obj(One(key_b, val6))
    /\ class_actions[1].changed

-----------------------------------------------------------------------------
(* Update on leaf arrays *)

success == Str(<<"s">>)
val16 == Str(<<"1", "6">>)

\* The leaf arrays: strings, one of them containing the others, and a boolean.
UpdateArrays == {Arr(e) : e \in SeqsUpTo({val1, val6, val16, valT}, MaxLeaf)}

\* key_a holds a leaf array, with the array key_c beside it.
UpdateFlat ==
    {Obj(Merge(One(key_a, x), One(key_c, Arr(<<val1>>)))) : x \in UpdateArrays}

\* key_a holds two objects with a leaf array under key_b, with the object
\* key_c beside them, as in test_update_array.
UpdateNested ==
    {Obj(Merge(One(key_a, Arr(<<Obj(One(key_b, x)), Obj(One(key_b, y))>>)),
               One(key_c, Obj(One(key_b, Arr(<<val1>>)))))) :
        x \in UpdateArrays, y \in {Arr(<<val6>>), Arr(<<val6, val1>>)}}

\* A record and a path that leads to arrays in it.
UpdateInputs ==
    (UpdateFlat \X {<<key_a>>}) \cup (UpdateNested \X {<<key_a>>, <<key_a, key_b>>})

InitElementwise ==
    \E input \in UpdateInputs, match_type \in {"equal", "contains", "regex"} :
    \E value_to_check \in {val1, val6}, schema_ \in {SEmpty, BatchSchema} :
        Ready(input[1],
              Action("Update", input[2], success, match_type, value_to_check, <<>>),
              schema_, NoStore)

SpecElementwise == InitElementwise /\ [][ApplyAction]_vars

\* The array with every element that satisfies the predicate replaced by the
\* value, index by index.
Replaced(self, e) ==
    [j \in 1..Len(e) |->
        IF Satisfies(self.match_type, self.value_to_check, e[j]) THEN self.value ELSE e[j]]

\* The record with the arrays under the last key of the path replaced
\* element-wise, and everything else as it was.
RECURSIVE Elementwise(_, _, _)
Elementwise(self, n, position) ==
    LET key == KeyAt(self.keys, position)
    IN IF ~IsDict(n) \/ key \notin DOMAIN n.m THEN n
       ELSE LET child == n.m[key]
            IN IF position = Len(self.keys) - 1
               THEN IF IsList(child)
                    THEN Obj([n.m EXCEPT ![key] = Arr(Replaced(self, child.e))])
                    ELSE n
               ELSE IF IsList(child)
               THEN Obj([n.m EXCEPT ![key] =
                            Arr([j \in 1..Len(child.e) |->
                                    Elementwise(self, child.e[j], position + 1)])])
               ELSE Obj([n.m EXCEPT ![key] = Elementwise(self, child, position + 1)])

\* The predicate is defined on every element of the arrays under the last key:
\* Contains and RegexSearch look into strings.
RECURSIVE OnStrings(_, _, _)
OnStrings(self, n, position) ==
    LET key == KeyAt(self.keys, position)
    IN (IsDict(n) /\ key \in DOMAIN n.m) =>
          LET child == n.m[key]
          IN IF ~IsList(child)
             THEN position < Len(self.keys) - 1 => OnStrings(self, child, position + 1)
             ELSE \A j \in 1..Len(child.e) :
                    IF position = Len(self.keys) - 1 THEN IsStr(child.e[j])
                    ELSE OnStrings(self, child.e[j], position + 1)

\* C20: Update on arrays under the last key of the path leaves each array
\* with its length, every element that matches replaced by the value at its
\* index and every other element as it was; arrays in other branches, and
\* arrays without a match, are as they were.
C20_ElementWise ==
    (/\ pc = "applied"
     /\ class_actions[1].match_type # "equal" => OnStrings(class_actions[1], before[1], 0)) =>
        /\ err = ""
        /\ Content(1) = Elementwise(class_actions[1], before[1], 0)

\* C20 witness: Equal val1 on key_a/key_b replaced both elements of the first
\* array, and the second array, which holds only val6, is as it was.
C20_Witness ==
    /\ pc = "applied"
    /\ class_actions[1].match_type = "equal"
    /\ class_actions[1].value_to_check = val1
    /\ before[1].m[key_a] = Arr(<<Obj(One(key_b, Arr(<<val1, val1>>))),
                                  Obj(One(key_b, Arr(<<val6>>)))>>)
    /\ Content(1).m[key_a] = Arr(<<Obj(One(key_b, Arr(<<success, success>>))),
                                   Obj(One(key_b, Arr(<<val6>>)))>>)
    /\ Content(1).m[key_c] = before[1].m[key_c]

-----------------------------------------------------------------------------
(* create_schema_record on paths that end at an array *)

\* The schema node of the last key of a declared path, looked up from key j
\* on in the properties dict props.
RECURSIVE FinalNodeIn(_, _, _)
FinalNodeIn(props, path, j) ==
    LET node == props[path[j]]
    IN IF j = Len(path) THEN node
       ELSE FinalNodeIn(IF node.type = "array" THEN node.items.properties
                        ELSE node.properties, path, j + 1)

FinalNode(schema_, path) ==
    FinalNodeIn(IF schema_.type = "array" THEN schema_.items.properties
                ELSE schema_.properties, path, 1)

\* n holds the path from key j on as the schema shapes it: an array node
\* before the last key is a one-element array of an object that holds the
\* next key and nothing else, an object node is an object, and an array node
\* at the last key is the array [value].
RECURSIVE EndsInArray(_, _, _, _, _)
EndsInArray(n, props, path, j, value) ==
    /\ IsDict(n)
    /\ DOMAIN n.m = {path[j]}
    /\ LET node == props[path[j]]
           child == n.m[path[j]]
       IN IF j = Len(path) THEN child = Arr(<<value>>)
          ELSE IF node.type = "array"
          THEN /\ IsList(child)
               /\ Len(child.e) = 1
               /\ EndsInArray(child.e[1], node.items.properties, path, j + 1, value)
          ELSE EndsInArray(child, node.properties, path, j + 1, value)

\* C21: when the schema declares the path and the node of its last key is an
\* array, the synthesized structure holds [value] under the last key, for a
\* path of any length, and every array node before it is a one-element array
\* of one object that carries the rest of the path.
C21_FinalArrayHoldsValue ==
    (/\ pc = "created"
     /\ Declared(schema, class_actions[1].keys)
     /\ FinalNode(schema, class_actions[1].keys).type = "array") =>
        /\ err = ""
        /\ EndsInArray(records[1],
                       IF schema.type = "array" THEN schema.items.properties
                       ELSE schema.properties,
                       class_actions[1].keys, 1, class_actions[1].value)

\* C21: the state in which the path [key_a, key_c], an array of strings in
\* the objects of an array, gave key_a: [{key_c: [{key_c: val6}]}].
C21_ValueUnderSecondKey ==
    /\ pc = "created"
    /\ schema = SObj(SynthProps)
    /\ class_actions[1].keys = <<key_a, key_c>>
    /\ class_actions[1].value = val6
    /\ records[1] = Obj(One(key_a, Arr(<<Obj(One(key_c,
                            Arr(<<Obj(One(key_c, val6))>>)))>>)))

-----------------------------------------------------------------------------
(* The commit decision of process_records, record by record *)

\* record.commit() was called for record i: it raised, or it stored the record.
Committed(i) ==
    \/ Places(errors, i) # {}
    \/ \E j \in 1..Len(session) : session[j].id = i

\* record.commit() is called for the record when the task is run on it alone.
CommittedAlone(record) ==
    process_records(user_actions, NoStore, <<record>>, schema, {}).session # <<>>

\* The Action objects as they are when the processing of record i begins:
\* as the task leaves them after the records before i.
ActionsBefore(i) ==
    process_records(user_actions, NoStore, SubSeq(before, 1, i - 1), schema, {}).class_actions

\* C22: in a task whose applications all returned, no action has its changed
\* flag set when the processing of a record begins (nor when the task ends),
\* and record.commit() is called for a record exactly when it is called for
\* that record processed alone, whatever happened to the records before it.
C22_CommitPerRecord ==
    (pc = "task done" /\ err = "") =>
        /\ \A a \in 1..Len(class_actions) : ~class_actions[a].changed
        /\ \A i \in 1..Len(records) :
              /\ \A a \in 1..Len(ActionsBefore(i)) : ~ActionsBefore(i)[a].changed
              /\ Committed(i) <=> CommittedAlone(before[i])

\* C22 witness: the Update of val1 under key_a changed the first record,
\* which was committed; the second record, without key_a, is as it was and
\* was not committed.
C22_Witness ==
    /\ pc = "task done"
    /\ err = ""
    /\ user_actions.actions = <<UserAction("Update", Str(<<"a">>), val6, "equal", val1)>>
    /\ before = <<Obj(One(key_a, val1)), Obj(One(key_b, Arr(<<val6, val1>>)))>>
    /\ Content(1) = Obj(One(key_a, val6))
    /\ Committed(1)
    /\ Content(2) = before[2]
    /\ ~Committed(2)

-----------------------------------------------------------------------------
(* Addition on a missing key below the top, with conditions on other paths *)

\* Records without key_b on the path key_a/key_b: key_a is absent or holds
\* one object without key_b; key_c is absent or holds one object.
CountRecords ==
    {Obj(Merge(ma, mc)) :
        ma \in {EmptyMap, One(key_a, Arr(<<Obj(One(key_c, val1))>>)),
                One(key_a, Arr(<<Obj(One(key_d, val6))>>))},
        mc \in {EmptyMap, One(key_c, Arr(<<Obj(One(key_b, val1))>>))}}

\* Conditions on the action's path, on a path that leaves it at the first key,
\* on a path that leaves it at the second key, and on a path that extends it.
CountConditions ==
    {Condition(keys, val1, match_type) :
        keys \in {<<key_c>>, <<key_c, key_b>>, <<key_a, key_c>>, <<key_a, key_b>>,
                  <<key_a, key_b, key_d>>},
        match_type \in {"equal", "missing"}}

InitCount ==
    \E record \in CountRecords, conditions \in SeqsUpTo(CountConditions, MaxConds) :
        Ready(record, Action("Addition", <<key_a, key_b>>, val6, "", None, conditions),
              AdditionSchema, NoStore)

SpecCount == InitCount /\ [][ApplyAction]_vars

\* The counter of satisfied conditions that progress_keys returns in the
\* object under key_a, after the call on the record itself.
CheckedBelow(self, record, schema_) ==
    progress_keys(self, NoStore, record.m[key_a].e[1], schema_step(schema_, key_a).val, 1,
                  progress_keys(self, NoStore, record, schema_, 0, 0).checked).checked

\* C23: Addition creates the missing key only when every declared condition
\* holds on the record, and below key_a the counter of satisfied conditions is
\* not greater than the number of declared conditions.
C23_CreationNeedsEveryCondition ==
    pc = "applied" =>
        LET self == class_actions[1]
        IN /\ Content(1) # before[1] =>
                 Cardinality(TrueConditions(self, before[1])) = Len(self.conditions)
           /\ key_a \in DOMAIN before[1].m =>
                 CheckedBelow(self, before[1], schema) <= Len(self.conditions)

\* C23: the state in which key_b was created in the object under key_a with
\* two declared conditions: Missing on key_c/key_b, counted at the first key
\* and again at the second, and Equal on key_a/key_b/key_d, never evaluated
\* and false.
C23_CountedTwice ==
    /\ pc = "applied"
    /\ class_actions[1].conditions =
          <<Condition(<<key_c, key_b>>, val1, "missing"),
            Condition(<<key_a, key_b, key_d>>, val1, "equal")>>
    /\ before[1] = Obj(One(key_a, Arr(<<Obj(One(key_c, val1))>>)))
    /\ Content(1) = Obj(One(key_a, Arr(<<Obj(Merge(One(key_c, val1), One(key_b, val6)))>>)))
    /\ class_actions[1].changed
    /\ TrueConditions(class_actions[1], before[1]) = {1}
    /\ CheckedBelow(class_actions[1], before[1], schema) = 2

-----------------------------------------------------------------------------
(* Actions with a condition on a path that extends the action's path *)

\* What key_a holds: objects with a string under key_b, alone or in an array.
ExtendedValues ==
    {Obj(One(key_b, val6)), Obj(One(key_b, val1)),
     Arr(<<Obj(One(key_b, val6))>>),
     Arr(<<Obj(One(key_b, val6)), Obj(One(key_b, val6))>>),
     Arr(<<Obj(One(key_b, val1)), Obj(One(key_b, val6))>>)}

ExtendedRecords ==
    {Obj(Merge(One(key_a, x), mc)) :
        x \in ExtendedValues, mc \in {EmptyMap, One(key_c, val1), One(key_c, val6)}}

\* The one condition: on a sibling key, on the action's key, or below it.
ExtendedConditions ==
    {Condition(keys, value, match_type) :
        keys \in {<<key_c>>, <<key_a>>, <<key_a, key_b>>, <<key_a, key_d>>},
        value \in {val1, Obj(One(key_b, val6))},
        match_type \in {"equal", "missing"}}

InitExtended ==
    \E record \in ExtendedRecords, kind \in {"Addition", "Deletion", "Update"} :
    \E condition \in ExtendedConditions :
        Ready(record,
              Action(kind, <<key_a>>, Obj(One(key_b, val1)), "equal",
                     Obj(One(key_b, val6)), <<condition>>),
              SEmpty, NoStore)

SpecExtended == InitExtended /\ [][ApplyAction]_vars

\* C24: an action on key_a whose condition is false on the record leaves the
\* record as it was, also when the condition's path extends the action's path.
C24_FalseConditionBlocks ==
    (pc = "applied" /\ TrueConditions(class_actions[1], before[1]) = {}) =>
        Content(1) = before[1]

\* C24: the state in which Update replaced the object {key_b: val6} under
\* key_a although its condition, Equal val1 on key_a/key_b, is false.
C24_AppliedDespiteDeeperCondition ==
    /\ pc = "applied"
    /\ class_actions[1].kind = "Update"
    /\ class_actions[1].conditions = <<Condition(<<key_a, key_b>>, val1, "equal")>>
    /\ before[1] = Obj(One(key_a, Obj(One(key_b, val6))))
    /\ TrueConditions(class_actions[1], before[1]) = {}
    /\ Content(1) = Obj(One(key_a, Obj(One(key_b, val1))))

-----------------------------------------------------------------------------
(* The records that a task changes and the records it commits *)

\* C25: after a task whose applications all returned, record.commit() was
\* called for every record whose content the actions changed.
C25_MutatedIsCommitted ==
    (pc = "task done" /\ err = "") =>
        \A i \in 1..Len(records) : Content(i) # before[i] => Committed(i)

\* C25: the state in which the one record of the batch lost val6 from the
\* array under key_b by a Deletion and commit() was not called for it.
C25_DeletionNotCommitted ==
    /\ pc = "task done"
    /\ err = ""
    /\ user_actions.actions = <<UserAction("Deletion", Str(<<"b">>), None, "equal", val6)>>
    /\ before = <<Obj(One(key_b, Arr(<<val6, val1>>)))>>
    /\ Content(1) = Obj(One(key_b, Arr(<<val1>>)))
    /\ ~Committed(1)
    /\ \A a \in 1..Len(class_actions) : ~class_actions[a].changed

-----------------------------------------------------------------------------
(* What an action leaves alone *)

\* An element of record[key_a]: key_b absent or holding a string or an array
\* of strings, key_d beside it or not.
FrameElems ==
    {Obj(Merge(mb, md)) :
        mb \in {EmptyMap, One(key_b, val6), One(key_b, val1),
                One(key_b, Arr(<<val6, val1>>))},
        md \in {EmptyMap, One(key_d, val1)}}

\* key_a absent, or holding an object or an array of objects; key_c beside
\* it or not.
FrameRecords ==
    {Obj(Merge(ma, mc)) :
        ma \in {EmptyMap} \cup {One(key_a, x) : x \in FrameElems \ {EmptyObj}}
               \cup {One(key_a, Arr(e)) : e \in SeqsUpTo(FrameElems, MaxElems) \ {<<>>}},
        mc \in {EmptyMap, One(key_c, val1)}}

\* No condition, or one on a key beside the path.
FrameConditions ==
    {<<>>} \cup {<<Condition(keys, val1, "equal")>> : keys \in {<<key_c>>, <<key_a, key_d>>}}

InitFrame ==
    \E record \in FrameRecords, kind \in {"Addition", "Deletion", "Update"} :
    \E keys \in {<<key_a>>, <<key_a, key_b>>}, conditions \in FrameConditions :
        Ready(record, Action(kind, keys, val1, "equal", val6, conditions),
              AdditionSchema, NoStore)

SpecFrame == InitFrame /\ [][ApplyAction]_vars

NotEmpty(n) == n \notin {EmptyObj, EmptyArr, EmptyStr}

\* What the objects met along the path hold beside the path: n without the
\* key of the path at the last position, and with what lies under the key at
\* an earlier position reduced in the same way; what is left empty is dropped.
RECURSIVE Beside(_, _, _)
Beside(n, keys, position) ==
    IF ~IsDict(n) THEN n
    ELSE LET key == KeyAt(keys, position)
             rest == Without(n.m, key)
         IN IF key \notin DOMAIN n.m \/ position = Len(keys) - 1 THEN Obj(rest)
            ELSE LET child == n.m[key]
                     below == IF IsList(child)
                              THEN Arr(SelectSeq([j \in 1..Len(child.e) |->
                                                    Beside(child.e[j], keys, position + 1)],
                                                 NotEmpty))
                              ELSE Beside(child, keys, position + 1)
                 IN IF NotEmpty(below) THEN Obj(Merge(rest, One(key, below)))
                    ELSE Obj(rest)

\* C26: whatever the action did, and whether it returned or raised, the
\* objects along its path hold beside the path what they held before, in the
\* same order; the evaluation of the conditions changed nothing.
C26_Frame ==
    pc = "applied" =>
        Beside(Content(1), class_actions[1].keys, 0)
            = Beside(before[1], class_actions[1].keys, 0)

\* C26 witness: under the condition key_c Equal val1, Deletion of val6 on
\* key_a/key_b took key_b from the first element, which keeps key_d, and
\* dropped the second element, which held nothing else; key_c is as it was.
C26_Witness ==
    /\ pc = "applied"
    /\ err = ""
    /\ class_actions[1].kind = "Deletion"
    /\ class_actions[1].conditions = <<Condition(<<key_c>>, val1, "equal")>>
    /\ before[1] = Obj(Merge(One(key_a, Arr(<<Obj(Merge(One(key_b, val6), One(key_d, val1))),
                                              Obj(One(key_b, val6))>>)),
                             One(key_c, val1)))
    /\ Content(1) = Obj(Merge(One(key_a, Arr(<<Obj(One(key_d, val1))>>)),
                              One(key_c, val1)))

====
